---- MODULE Spec2Model ----
(***************************************************************************)
(* Model of merle's message bus (bus.plugin / unplug / subscribe /         *)
(* unsubscribe / receive / broadcast, Thing.Reply) and of the bridge's     *)
(* port pool (ports.init / nextPort / getPort / scan, port.connect /       *)
(* disconnect / attach).                                                   *)
(*                                                                         *)
(* Goroutines are tasks with a program counter; a sync.RWMutex is a pair   *)
(* (writer, readers); a buffered channel of bool is its length.  A step of *)
(* a task is the code between two points where the goroutine can block.    *)
(***************************************************************************)
EXTENDS Integers, Sequences, FiniteSets, TLC

\* ------------------------------------------------------------------ bounds
NumSockets == 3
SocketsMax == 2
MaxSubs == 2
MaxPort == 2
MaxAttach == 2
MaxRun == 3
MaxDiscard == 2
MaxFrames == 1

\* The goroutines that call into the bus.
Tasks == {1, 2}
Sockets == 1..NumSockets
\* A nil *Packet source (a packet made by the Thing itself).
NoSocket == 0
\* No task holds the write lock.
NoTask == 0

\* --------------------------------------------------------------- regexp
\* A pattern and a Msg are sequences of one-character strings.  The subset
\* of regexp syntax: a literal, "." (any character), postfix "*", a leading
\* "^" and a trailing "$" (the patterns below use "^" and "$" nowhere else).
DropFirst(s, n) == SubSeq(s, n + 1, Len(s))

CharMatches(c, x) == c = "." \/ c = x

\* regexp.MatchString returns an error for a pattern that does not compile:
\* "*" with nothing to repeat ("missing argument to repetition operator") or
\* "**" ("invalid nested repetition operator").
Compiles(re) ==
    \A i \in 1..Len(re) :
        re[i] = "*" => (i > 1 /\ re[i - 1] # "*")

RECURSIVE MatchHere(_, _)
MatchHere(re, text) ==
    IF re = <<>> THEN TRUE
    ELSE IF Len(re) >= 2 /\ re[2] = "*"
    THEN \E k \in 0..Len(text) :
            /\ \A j \in 1..k : CharMatches(re[1], text[j])
            /\ MatchHere(DropFirst(re, 2), DropFirst(text, k))
    ELSE IF re = <<"$">> THEN text = <<>>
    ELSE /\ text # <<>>
         /\ CharMatches(re[1], text[1])
         /\ MatchHere(Tail(re), Tail(text))

\* regexp.MatchString(pattern, s): the pattern matches somewhere in s (the
\* match is not anchored unless the pattern says so).
MatchString(re, text) ==
    IF re # <<>> /\ re[1] = "^"
    THEN MatchHere(Tail(re), text)
    ELSE \E k \in 0..Len(text) : MatchHere(re, DropFirst(text, k))

\* ------------------------------------------------------------ bus inputs
PatA == <<"a">>
PatExactA == <<"^", "a", "$">>
PatAny == <<".", "*">>
PatBad == <<"*", "a">>
Patterns == {PatA, PatExactA, PatAny, PatBad}

Msgs == {<<"a">>, <<"b", "a">>, <<"b">>}

\* Where a packet came from: a socket, or nowhere.
PacketSources == Sockets \cup {NoSocket}

\* Handlers are func(*Packet) values; two registrations of one name are the
\* same function.  What each does when it is invoked:
Handlers == {"h1", "h2", "hSub", "hUnsub", "hBcast", "hReply"}

HandlerDoes(h) ==
    CASE h = "hSub" -> "subscribe"
      [] h = "hUnsub" -> "unsubscribe"
      [] h = "hBcast" -> "broadcast"
      [] h = "hReply" -> "reply"
      [] OTHER -> "nop"

\* The (pattern, handler) pairs the callers subscribe and unsubscribe.
SubInputs ==
    { <<PatA, "h1">>, <<PatA, "h2">>, <<PatExactA, "h1">>, <<PatBad, "h1">>,
      <<PatAny, "h2">>, <<PatA, "hSub">>, <<PatA, "hUnsub">>,
      <<PatAny, "hBcast">>, <<PatExactA, "hReply">> }

\* ------------------------------------------------------------- bus state
VARIABLES
    sockets,      \* bus.sockets: the set of plugged sockets
    socketQ,      \* len(bus.socketQ), a channel of capacity SocketsMax
    sockW,        \* the task holding bus.sockLock for writing, or NoTask
    sockR,        \* the tasks holding bus.sockLock for reading
    subs,         \* bus.subs: pattern -> sequence of handlers
    subW,         \* the task holding bus.subLock for writing, or NoTask
    subR,         \* the tasks holding bus.subLock for reading
    pc,           \* where each task is
    frame,        \* the arguments and locals of each task's running call
    thingLock,    \* the task holding the Thing's sync.Mutex, or NoTask
    panicked,     \* a goroutine dereferenced a nil pointer: the process died
    closed,       \* the sockets bus.close() has called Close on
    wsLoop,       \* each task's run of Thing.ws or of the end of Thing.Start:
                  \* where it is and the socket it made
    wsTorn,       \* the sockets whose handler has returned: the deferred
                  \* ws.Close() has been called on them
    begin,        \* ports.begin
    end,          \* ports.end
    num,          \* ports.num
    next,         \* ports.next, the round-robin cursor
    ports,        \* ports.ports: offset -> port
    portMap,      \* ports.portMap: id -> offset of the port it points to
    poolState,    \* "none", "new", "failed" (init returned an error), "running"
    initRet,      \* what init() returned and left behind, once it has run
    ret,          \* what the last getPort call returned
    attach,       \* offset -> the attach goroutines of the port, oldest first
    run,          \* the getPort calls made one after the other on a pool that
                  \* was all idle at the first of them: <<id, result>>
    runStart,     \* the cursor and the mapped ids the first call of run found
    scanTask,     \* the goroutine of start(): "none", "select" (waiting in its
                  \* select), "exited"
    ticker,       \* p.ticker: "none", "on", "stopped"
    tickerC,      \* len(p.ticker.C) once the ticker is stopped: a tick sent
                  \* before Stop() and not yet received
    stopPc,       \* where stop() is: "idle" (not called), "send" (at
                  \* p.done <- true), "returned"
    hs,           \* a call of wsReplyIdentity: where it is, its read
                  \* deadline, its identity variable and what it has read
    gp            \* the getPort calls of the HTTP handlers that run side by
                  \* side: where each is, its id and its locals

wsVars == <<wsLoop, wsTorn>>

busVars ==
    <<sockets, socketQ, sockW, sockR, subs, subW, subR, pc, frame, thingLock,
      panicked, closed, wsVars>>

tickVars == <<scanTask, ticker, tickerC, stopPc>>

poolVars ==
    <<begin, end, num, next, ports, portMap, poolState, initRet, ret, attach,
      run, runStart, tickVars, hs, gp>>

NoOut == [s \in Sockets |-> 0]

\* A task that runs neither Thing.ws nor the end of Thing.Start.
NoLoop == [at |-> "none", sock |-> NoSocket]

Frame0 ==
    [ s |-> NoSocket, pat |-> <<>>, h |-> "", src |-> NoSocket, msg |-> <<>>,
      keys |-> {}, key |-> <<>>, funcs |-> <<>>, calls |-> <<>>, skipped |-> {},
      inner |-> "none", out |-> NoOut,
      oldSockets |-> {}, oldSubs |-> <<>>, oldSrc |-> NoSocket,
      atCap |-> FALSE, released |-> FALSE, took |-> FALSE ]

At(t, p) == ~panicked /\ pc[t] = p

\* Number of registrations in the subscription table.
RECURSIVE SumLen(_, _)
SumLen(f, D) ==
    IF D = {} THEN 0
    ELSE LET k == CHOOSE k \in D : TRUE IN Len(f[k]) + SumLen(f, D \ {k})

NumSubs == SumLen(subs, DOMAIN subs)

\* sync.RWMutex: Lock waits until no reader and no writer holds the lock;
\* RLock waits while a writer holds the lock or is waiting for it.
SockLockers == {t \in Tasks : pc[t] \in {"plugin_lock", "unplug_lock"}}

SubLockers ==
    {t \in Tasks : \/ pc[t] \in {"subscribe", "unsubscribe"}
                   \/ frame[t].inner \in {"subscribe", "unsubscribe"}}

SockLockFree == sockW = NoTask /\ sockR = {}
SockRLockFree == sockW = NoTask /\ SockLockers = {}
SubLockFree == subW = NoTask /\ subR = {}
SubRLockFree == subW = NoTask /\ SubLockers = {}

BusInit ==
    /\ sockets = {}
    /\ socketQ = 0
    /\ sockW = NoTask
    /\ sockR = {}
    /\ subs = <<>>
    /\ subW = NoTask
    /\ subR = {}
    /\ pc = [t \in Tasks |-> "idle"]
    /\ frame = [t \in Tasks |-> Frame0]
    /\ thingLock = NoTask
    /\ panicked = FALSE
    /\ closed = {}
    /\ wsLoop = [t \in Tasks |-> NoLoop]
    /\ wsTorn = {}

\* ---------------------------------------------------------- plugin/unplug
\* A call starts.  Its arguments are drawn at the step that first uses them.
CallPlugin(t) ==
    /\ At(t, "idle")
    /\ pc' = [pc EXCEPT ![t] = "plugin_send"]
    /\ frame' = [frame EXCEPT ![t] = [Frame0 EXCEPT
                     !.atCap = (Cardinality(sockets) >= SocketsMax)]]
    /\ UNCHANGED <<sockets, socketQ, sockW, sockR, subs, subW, subR, thingLock, panicked>>
    /\ UNCHANGED closed
    /\ UNCHANGED wsVars
    /\ UNCHANGED poolVars

\* b.socketQ <- true
PluginSendMayBlock(q) == q < SocketsMax

PluginSend(t) ==
    /\ At(t, "plugin_send")
    /\ PluginSendMayBlock(socketQ)
    /\ socketQ' = socketQ + 1
    /\ pc' = [pc EXCEPT ![t] = "plugin_lock"]
    /\ UNCHANGED <<sockets, sockW, sockR, subs, subW, subR, frame, thingLock, panicked>>
    /\ UNCHANGED closed
    /\ UNCHANGED wsVars
    /\ UNCHANGED poolVars

\* b.sockLock.Lock(); b.sockets[s] = true
PluginLock(t, s) ==
    /\ At(t, "plugin_lock")
    /\ SockLockFree
    /\ sockW' = t
    /\ sockets' = sockets \cup {s}
    /\ frame' = [frame EXCEPT ![t].s = s, ![t].oldSockets = sockets]
    /\ pc' = [pc EXCEPT ![t] = "plugin_unlock"]
    /\ UNCHANGED <<socketQ, sockR, subs, subW, subR, thingLock, panicked>>
    /\ UNCHANGED closed
    /\ UNCHANGED wsVars
    /\ UNCHANGED poolVars

\* the deferred b.sockLock.Unlock()
PluginUnlock(t) ==
    /\ At(t, "plugin_unlock")
    /\ sockW' = NoTask
    /\ pc' = [pc EXCEPT ![t] = "idle"]
    /\ frame' = [frame EXCEPT ![t] = Frame0]
    /\ UNCHANGED <<sockets, socketQ, sockR, subs, subW, subR, thingLock, panicked>>
    /\ UNCHANGED closed
    /\ UNCHANGED wsVars
    /\ UNCHANGED poolVars

CallUnplug(t) ==
    /\ At(t, "idle")
    /\ pc' = [pc EXCEPT ![t] = "unplug_lock"]
    /\ frame' = [frame EXCEPT ![t] = Frame0]
    /\ UNCHANGED <<sockets, socketQ, sockW, sockR, subs, subW, subR, thingLock, panicked>>
    /\ UNCHANGED closed
    /\ UNCHANGED wsVars
    /\ UNCHANGED poolVars

\* b.sockLock.Lock(); delete(b.sockets, s)
UnplugLock(t, s) ==
    /\ At(t, "unplug_lock")
    /\ SockLockFree
    /\ sockW' = t
    /\ sockets' = sockets \ {s}
    /\ frame' = [frame EXCEPT ![t].s = s, ![t].oldSockets = sockets]
    /\ pc' = [pc EXCEPT ![t] = "unplug_recv"]
    /\ UNCHANGED <<socketQ, sockR, subs, subW, subR, thingLock, panicked>>
    /\ UNCHANGED closed
    /\ UNCHANGED wsVars
    /\ UNCHANGED poolVars

\* <-b.socketQ, with the lock still held.  The plugin calls waiting to send
\* are noted as having seen a slot released.
UnplugRecv(t) ==
    /\ At(t, "unplug_recv")
    /\ socketQ > 0
    /\ socketQ' = socketQ - 1
    /\ frame' = [u \in Tasks |->
                    IF u = t THEN [frame[u] EXCEPT !.took = TRUE]
                    ELSE IF pc[u] = "plugin_send"
                    THEN [frame[u] EXCEPT !.released = TRUE]
                    ELSE frame[u]]
    /\ pc' = [pc EXCEPT ![t] = "unplug_unlock"]
    /\ UNCHANGED <<sockets, sockW, sockR, subs, subW, subR, thingLock, panicked>>
    /\ UNCHANGED closed
    /\ UNCHANGED wsVars
    /\ UNCHANGED poolVars

UnplugUnlock(t) ==
    /\ At(t, "unplug_unlock")
    /\ sockW' = NoTask
    /\ pc' = [pc EXCEPT ![t] = "idle"]
    /\ frame' = [frame EXCEPT ![t] = Frame0]
    /\ UNCHANGED <<sockets, socketQ, sockR, subs, subW, subR, thingLock, panicked>>
    /\ UNCHANGED closed
    /\ UNCHANGED wsVars
    /\ UNCHANGED poolVars

\* ---------------------------------------------------- subscribe/unsubscribe
\* b.subs[msg] = append(b.subs[msg], f)
Subscribed(table, msg, f) ==
    IF msg \in DOMAIN table
    THEN [table EXCEPT ![msg] = Append(@, f)]
    ELSE [k \in DOMAIN table \cup {msg} |->
            IF k = msg THEN <<f>> ELSE table[k]]

\* The index of the first g in list with g == f, or 0.
FirstIndex(list, f) ==
    IF \E i \in 1..Len(list) : list[i] = f
    THEN CHOOSE i \in 1..Len(list) :
            /\ list[i] = f
            /\ \A j \in 1..(i - 1) : list[j] # f
    ELSE 0

\* append(list[:i], list[i+1:]...)
WithoutIndex(list, i) == SubSeq(list, 1, i - 1) \o SubSeq(list, i + 1, Len(list))

WithoutEvery(list, f) == SelectSeq(list, LAMBDA g : g # f)

\* The loop of unsubscribe: the list with the first registration of f cut.
WithoutFirst(list, f) ==
    IF FirstIndex(list, f) = 0 THEN list
    ELSE WithoutIndex(list, FirstIndex(list, f))

Unsubscribed(table, msg, f) ==
    IF msg \notin DOMAIN table THEN table
    ELSE LET list == WithoutFirst(table[msg], f) IN
         IF Len(list) = 0
         THEN [k \in DOMAIN table \ {msg} |-> table[k]]
         ELSE [table EXCEPT ![msg] = list]

\* The <<pattern, handler>> a handler running for key passes to the call it
\* makes.
HandlerCall(h, key) ==
    CASE h = "hSub" -> <<PatAny, "h1">>
      [] h = "hUnsub" -> <<key, "hUnsub">>
      [] OTHER -> <<key, h>>

\* A task is inside subscribe (unsubscribe), called by the task itself or by
\* the handler it is running, and waits in b.subLock.Lock().
InSubLock(t, op) ==
    /\ ~panicked
    /\ \/ pc[t] = op
       \/ pc[t] = "receive_range" /\ frame[t].inner = op

CallSubscribe(t) ==
    /\ At(t, "idle")
    /\ NumSubs + Cardinality({u \in Tasks : pc[u] = "subscribe"}) < MaxSubs
    /\ pc' = [pc EXCEPT ![t] = "subscribe"]
    /\ frame' = [frame EXCEPT ![t] = Frame0]
    /\ UNCHANGED <<sockets, socketQ, sockW, sockR, subs, subW, subR, thingLock, panicked>>
    /\ UNCHANGED closed
    /\ UNCHANGED wsVars
    /\ UNCHANGED poolVars

\* Lock, append, and the deferred Unlock.
Subscribe(t, msg, f) ==
    /\ InSubLock(t, "subscribe")
    /\ pc[t] = "receive_range" => <<msg, f>> = <<frame[t].pat, frame[t].h>>
    /\ SubLockFree
    /\ subs' = Subscribed(subs, msg, f)
    /\ IF pc[t] = "subscribe"
       THEN /\ pc' = [pc EXCEPT ![t] = "idle"]
            /\ frame' = [frame EXCEPT ![t] = Frame0]
       ELSE /\ pc' = pc
            /\ frame' = [frame EXCEPT ![t].inner = "none"]
    /\ UNCHANGED <<sockets, socketQ, sockW, sockR, subW, subR, thingLock, panicked>>
    /\ UNCHANGED closed
    /\ UNCHANGED wsVars
    /\ UNCHANGED poolVars

CallUnsubscribe(t) ==
    /\ At(t, "idle")
    /\ pc' = [pc EXCEPT ![t] = "unsubscribe"]
    /\ frame' = [frame EXCEPT ![t] = Frame0]
    /\ UNCHANGED <<sockets, socketQ, sockW, sockR, subs, subW, subR, thingLock, panicked>>
    /\ UNCHANGED closed
    /\ UNCHANGED wsVars
    /\ UNCHANGED poolVars

\* Lock and the body of unsubscribe.  Called by the task itself, the lock is
\* held until UnsubscribeUnlock; called by a handler, the call returns to it.
UnsubscribeLock(t, msg, f) ==
    /\ InSubLock(t, "unsubscribe")
    /\ pc[t] = "receive_range" => <<msg, f>> = <<frame[t].pat, frame[t].h>>
    /\ SubLockFree
    /\ subs' = Unsubscribed(subs, msg, f)
    /\ IF pc[t] = "unsubscribe"
       THEN /\ subW' = t
            /\ pc' = [pc EXCEPT ![t] = "unsubscribe_unlock"]
            /\ frame' = [frame EXCEPT ![t].pat = msg, ![t].h = f,
                            ![t].oldSubs = subs]
       ELSE /\ subW' = subW
            /\ pc' = pc
            /\ frame' = [frame EXCEPT ![t].inner = "none"]
    /\ UNCHANGED <<sockets, socketQ, sockW, sockR, subR, thingLock, panicked>>
    /\ UNCHANGED closed
    /\ UNCHANGED wsVars
    /\ UNCHANGED poolVars

UnsubscribeUnlock(t) ==
    /\ At(t, "unsubscribe_unlock")
    /\ subW' = NoTask
    /\ pc' = [pc EXCEPT ![t] = "idle"]
    /\ frame' = [frame EXCEPT ![t] = Frame0]
    /\ UNCHANGED <<sockets, socketQ, sockW, sockR, subs, subR, thingLock, panicked>>
    /\ UNCHANGED closed
    /\ UNCHANGED wsVars
    /\ UNCHANGED poolVars

\* --------------------------------------------------------- broadcast/reply
\* What broadcast sends: the number of sock.Send(p) calls on each socket.
BroadcastToAll(plugged, src) ==
    [s \in Sockets |-> IF s \in plugged THEN 1 ELSE 0]

BroadcastSends(plugged, src) ==
    IF Cardinality(plugged) = 0 THEN NoOut
    ELSE IF Cardinality(plugged) = 1 /\ src # NoSocket /\ src \in plugged
    THEN NoOut
    ELSE [s \in Sockets |-> IF s \in plugged /\ s # src THEN 1 ELSE 0]

\* What p.writeMessage() sends: one write on the packet's own connection.
ReplyToOthers(plugged, conn) ==
    [s \in Sockets |-> IF s \in plugged /\ s # conn THEN 1 ELSE 0]

WriteMessageSends(plugged, conn) ==
    [s \in Sockets |-> IF s = conn THEN 1 ELSE 0]

Plus(a, b) == [s \in Sockets |-> a[s] + b[s]]

\* A task is at the RLock of broadcast, called by the task itself or by the
\* handler it is running.
InBroadcast(t) ==
    /\ ~panicked
    /\ \/ pc[t] = "broadcast_rlock"
       \/ pc[t] = "receive_range" /\ frame[t].inner = "broadcast"

CallBroadcast(t) ==
    /\ At(t, "idle")
    /\ pc' = [pc EXCEPT ![t] = "broadcast_rlock"]
    /\ frame' = [frame EXCEPT ![t] = Frame0]
    /\ UNCHANGED <<sockets, socketQ, sockW, sockR, subs, subW, subR, thingLock, panicked>>
    /\ UNCHANGED closed
    /\ UNCHANGED wsVars
    /\ UNCHANGED poolVars

\* RLock and the body of broadcast.  Called by the task itself, the lock is
\* held until BroadcastRUnlock; called by a handler, the call returns to it.
BroadcastRLock(t, src) ==
    /\ InBroadcast(t)
    /\ pc[t] = "receive_range" => src = frame[t].src
    /\ SockRLockFree
    /\ IF pc[t] = "broadcast_rlock"
       THEN /\ sockR' = sockR \cup {t}
            /\ pc' = [pc EXCEPT ![t] = "broadcast_runlock"]
            /\ frame' = [frame EXCEPT ![t].src = src, ![t].oldSrc = src,
                            ![t].oldSockets = sockets,
                            ![t].out = BroadcastSends(sockets, src)]
       ELSE /\ sockR' = sockR
            /\ pc' = pc
            /\ frame' = [frame EXCEPT ![t].inner = "none",
                            ![t].out = Plus(@, BroadcastSends(sockets, frame[t].src))]
    /\ UNCHANGED <<sockets, socketQ, sockW, subs, subW, subR, thingLock, panicked>>
    /\ UNCHANGED closed
    /\ UNCHANGED wsVars
    /\ UNCHANGED poolVars

BroadcastRUnlock(t) ==
    /\ At(t, "broadcast_runlock")
    /\ sockR' = sockR \ {t}
    /\ pc' = [pc EXCEPT ![t] = "idle"]
    /\ frame' = [frame EXCEPT ![t] = Frame0]
    /\ UNCHANGED <<sockets, socketQ, sockW, subs, subW, subR, thingLock, panicked>>
    /\ UNCHANGED closed
    /\ UNCHANGED wsVars
    /\ UNCHANGED poolVars

\* Reply(p) is called with a packet whose source was set when it was made.
CallReply(t, src) ==
    /\ At(t, "idle")
    /\ pc' = [pc EXCEPT ![t] = "reply_lock"]
    /\ frame' = [frame EXCEPT ![t] = [Frame0 EXCEPT !.src = src, !.oldSrc = src]]
    /\ UNCHANGED <<sockets, socketQ, sockW, sockR, subs, subW, subR, thingLock, panicked>>
    /\ UNCHANGED closed
    /\ UNCHANGED wsVars
    /\ UNCHANGED poolVars

InReply(t) ==
    /\ ~panicked
    /\ \/ pc[t] = "reply_lock"
       \/ pc[t] = "receive_range" /\ frame[t].inner = "reply"

\* t.Lock() and p.writeMessage().  A packet with no connection makes
\* p.conn.WriteMessage dereference nil.
ReplyLock(t) ==
    /\ InReply(t)
    /\ thingLock = NoTask
    /\ panicked' = (frame[t].src = NoSocket)
    /\ IF pc[t] = "reply_lock"
       THEN /\ thingLock' = t
            /\ pc' = [pc EXCEPT ![t] = "reply_unlock"]
            /\ frame' = [frame EXCEPT ![t].oldSockets = sockets,
                            ![t].out = WriteMessageSends(sockets, frame[t].src)]
       ELSE /\ thingLock' = thingLock
            /\ pc' = pc
            /\ frame' = [frame EXCEPT ![t].inner = "none",
                            ![t].out = Plus(@, WriteMessageSends(sockets, frame[t].src))]
    /\ UNCHANGED <<sockets, socketQ, sockW, sockR, subs, subW, subR>>
    /\ UNCHANGED closed
    /\ UNCHANGED wsVars
    /\ UNCHANGED poolVars

ReplyUnlock(t) ==
    /\ At(t, "reply_unlock")
    /\ thingLock' = NoTask
    /\ pc' = [pc EXCEPT ![t] = "idle"]
    /\ frame' = [frame EXCEPT ![t] = Frame0]
    /\ UNCHANGED <<sockets, socketQ, sockW, sockR, subs, subW, subR, panicked>>
    /\ UNCHANGED closed
    /\ UNCHANGED wsVars
    /\ UNCHANGED poolVars

\* -------------------------------------------------------------------- close
\* The loop of close that stops after the first socket.
CloseOne(done, plugged) ==
    IF plugged = {} THEN done
    ELSE done \cup {CHOOSE s \in plugged : TRUE}

\* for sock := range b.sockets { sock.Close() }
CloseSockets(done, plugged) == done \cup plugged

CallClose(t) ==
    /\ At(t, "idle")
    /\ pc' = [pc EXCEPT ![t] = "close_rlock"]
    /\ frame' = [frame EXCEPT ![t] = Frame0]
    /\ UNCHANGED <<sockets, socketQ, sockW, sockR, subs, subW, subR, thingLock, panicked>>
    /\ UNCHANGED closed
    /\ UNCHANGED wsVars
    /\ UNCHANGED poolVars

\* b.sockLock.RLock() and the range over b.sockets: no socket is plugged or
\* unplugged while the read lock is held.
CloseRLock(t) ==
    /\ At(t, "close_rlock")
    /\ SockRLockFree
    /\ sockR' = sockR \cup {t}
    /\ closed' = CloseSockets(closed, sockets)
    /\ pc' = [pc EXCEPT ![t] = "close_runlock"]
    /\ frame' = [frame EXCEPT ![t].oldSockets = sockets]
    /\ UNCHANGED <<sockets, socketQ, sockW, subs, subW, subR, thingLock, panicked>>
    /\ UNCHANGED wsVars
    /\ UNCHANGED poolVars

\* the deferred b.sockLock.RUnlock()
CloseRUnlock(t) ==
    /\ At(t, "close_runlock")
    /\ sockR' = sockR \ {t}
    /\ pc' = [pc EXCEPT ![t] = "idle"]
    /\ frame' = [frame EXCEPT ![t] = Frame0]
    /\ UNCHANGED <<sockets, socketQ, sockW, subs, subW, subR, thingLock, panicked>>
    /\ UNCHANGED closed
    /\ UNCHANGED wsVars
    /\ UNCHANGED poolVars

\* ------------------------------------------------------------------ receive
CallReceive(t) ==
    /\ At(t, "idle")
    /\ pc' = [pc EXCEPT ![t] = "receive_rlock"]
    /\ frame' = [frame EXCEPT ![t] = Frame0]
    /\ UNCHANGED <<sockets, socketQ, sockW, sockR, subs, subW, subR, thingLock, panicked>>
    /\ UNCHANGED closed
    /\ UNCHANGED wsVars
    /\ UNCHANGED poolVars

\* b.subLock.RLock(); the range over b.subs starts.
ReceiveRLock(t, src, msg) ==
    /\ At(t, "receive_rlock")
    /\ SubRLockFree
    /\ subR' = subR \cup {t}
    /\ pc' = [pc EXCEPT ![t] = "receive_range"]
    /\ frame' = [frame EXCEPT ![t].src = src, ![t].oldSrc = src, ![t].msg = msg,
                    ![t].keys = DOMAIN subs, ![t].oldSubs = subs]
    /\ UNCHANGED <<sockets, socketQ, sockW, sockR, subs, subW, thingLock, panicked>>
    /\ UNCHANGED closed
    /\ UNCHANGED wsVars
    /\ UNCHANGED poolVars

\* The keys still to visit after regexp.MatchString returned an error.
AbortOnRegexpError(rest) == {}

AfterRegexpError(rest) == rest

\* The handlers receive runs for one key of b.subs.
HandlersOnEqual(key, msg, funcs) == IF key = msg THEN funcs ELSE <<>>

HandlersToRun(key, msg, funcs) ==
    IF MatchString(key, msg) THEN funcs ELSE <<>>

\* One iteration of "for key, funcs := range b.subs": Go visits the keys
\* of a map in an order it does not fix.
ReceiveRange(t) ==
    /\ At(t, "receive_range")
    /\ frame[t].funcs = <<>>
    /\ frame[t].inner = "none"
    /\ \E key \in frame[t].keys :
        LET rest == frame[t].keys \ {key} IN
        frame' = [frame EXCEPT ![t] =
            IF ~Compiles(key)
            THEN [@ EXCEPT !.keys = AfterRegexpError(rest),
                           !.skipped = @ \cup {key}]
            ELSE [@ EXCEPT !.keys = rest, !.key = key,
                           !.funcs = HandlersToRun(key, frame[t].msg, subs[key])]]
    /\ UNCHANGED <<sockets, socketQ, sockW, sockR, subs, subW, subR, pc, thingLock, panicked>>
    /\ UNCHANGED closed
    /\ UNCHANGED wsVars
    /\ UNCHANGED poolVars

\* f(p) for the next handler of the key: the handler starts, and calls into
\* the bus if it is one that does.
ReceiveCall(t) ==
    /\ At(t, "receive_range")
    /\ frame[t].funcs # <<>>
    /\ frame[t].inner = "none"
    /\ LET f == Head(frame[t].funcs)
           call == HandlerCall(f, frame[t].key) IN
       frame' = [frame EXCEPT ![t] =
            [@ EXCEPT !.funcs = Tail(@),
                      !.calls = Append(@, <<frame[t].key, f>>),
                      !.inner = HandlerDoes(f),
                      !.pat = call[1],
                      !.h = call[2]]]
    /\ UNCHANGED <<sockets, socketQ, sockW, sockR, subs, subW, subR, pc, thingLock, panicked>>
    /\ UNCHANGED closed
    /\ UNCHANGED wsVars
    /\ UNCHANGED poolVars

\* A handler that calls nothing returns.
ReceiveReturn(t) ==
    /\ At(t, "receive_range")
    /\ frame[t].inner = "nop"
    /\ frame' = [frame EXCEPT ![t].inner = "none"]
    /\ UNCHANGED <<sockets, socketQ, sockW, sockR, subs, subW, subR, pc, thingLock, panicked>>
    /\ UNCHANGED closed
    /\ UNCHANGED wsVars
    /\ UNCHANGED poolVars

\* The range is over: nothing left to visit, no handler running.
ReceiveFinished(t) ==
    /\ pc[t] = "receive_range"
    /\ frame[t].keys = {}
    /\ frame[t].funcs = <<>>
    /\ frame[t].inner = "none"

\* the deferred b.subLock.RUnlock()
ReceiveRUnlock(t) ==
    /\ ~panicked
    /\ ReceiveFinished(t)
    /\ subR' = subR \ {t}
    /\ pc' = [pc EXCEPT ![t] = "idle"]
    /\ frame' = [frame EXCEPT ![t] = Frame0]
    /\ UNCHANGED <<sockets, socketQ, sockW, sockR, subs, subW, thingLock, panicked>>
    /\ UNCHANGED closed
    /\ UNCHANGED wsVars
    /\ UNCHANGED poolVars

\* ------------------------------------------------ Thing.ws and Thing.Start
\* The sockets Thing.ws has made for the connections upgraded so far.
WsMade == {wsLoop[t].sock : t \in Tasks} \cup wsTorn

\* Thing.Start has got past Run and the Stop() of its servers: no request is
\* accepted any more.
Stopping == \E t \in Tasks : wsLoop[t].at \in {"closing", "shut"}

\* bus.close() has returned to Thing.Start.
Shut == \E t \in Tasks : wsLoop[t].at = "shut"

\* What a step of Thing.ws or Thing.Start leaves alone.
WsKeeps ==
    /\ UNCHANGED <<sockets, socketQ, sockW, sockR, subs, subW, subR, thingLock,
                   panicked>>
    /\ UNCHANGED closed
    /\ UNCHANGED poolVars

\* Thing.ws: the connection is upgraded, sock = newWebSocket(name, ws), and
\* t.bus.plugin(sock) is called.
WsOpen(t, s) ==
    /\ At(t, "idle")
    /\ wsLoop[t].at = "none"
    /\ ~Stopping
    /\ s \in Sockets \ WsMade
    /\ \A r \in Sockets \ WsMade : s <= r
    /\ wsLoop' = [wsLoop EXCEPT ![t] = [at |-> "read", sock |-> s]]
    /\ pc' = [pc EXCEPT ![t] = "plugin_send"]
    /\ frame' = [frame EXCEPT ![t] = [Frame0 EXCEPT
                     !.atCap = (Cardinality(sockets) >= SocketsMax)]]
    /\ UNCHANGED wsTorn
    /\ WsKeeps

\* ws.ReadMessage() returns a message and t.bus.receive(pkt) is called.
WsRead(t) ==
    /\ At(t, "idle")
    /\ wsLoop[t].at = "read"
    /\ wsLoop[t].sock \notin closed
    /\ pc' = [pc EXCEPT ![t] = "receive_rlock"]
    /\ frame' = [frame EXCEPT ![t] = Frame0]
    /\ UNCHANGED wsVars
    /\ WsKeeps

\* ws.ReadMessage() returns an error, as it does once the connection is
\* closed and as it may at any time: the loop breaks and t.bus.unplug(sock)
\* is called.
WsReadFail(t) ==
    /\ At(t, "idle")
    /\ wsLoop[t].at = "read"
    /\ wsLoop' = [wsLoop EXCEPT ![t].at = "unplug"]
    /\ pc' = [pc EXCEPT ![t] = "unplug_lock"]
    /\ frame' = [frame EXCEPT ![t] = Frame0]
    /\ UNCHANGED wsTorn
    /\ WsKeeps

\* unplug has returned and Thing.ws with it: the deferred ws.Close() runs.
WsReturn(t) ==
    /\ At(t, "idle")
    /\ wsLoop[t].at = "unplug"
    /\ wsTorn' = wsTorn \cup {wsLoop[t].sock}
    /\ wsLoop' = [wsLoop EXCEPT ![t] = NoLoop]
    /\ UNCHANGED <<pc, frame>>
    /\ WsKeeps

\* Thing.Start: Run has returned, the servers are stopped, and t.bus.close()
\* is called.
StartClose(t) ==
    /\ At(t, "idle")
    /\ wsLoop[t].at = "none"
    /\ ~Stopping
    /\ wsLoop' = [wsLoop EXCEPT ![t].at = "closing"]
    /\ pc' = [pc EXCEPT ![t] = "close_rlock"]
    /\ frame' = [frame EXCEPT ![t] = Frame0]
    /\ UNCHANGED wsTorn
    /\ WsKeeps

\* t.bus.close() has returned, and Thing.Start returns.
StartReturn(t) ==
    /\ At(t, "idle")
    /\ wsLoop[t].at = "closing"
    /\ wsLoop' = [wsLoop EXCEPT ![t].at = "shut"]
    /\ UNCHANGED <<wsTorn, pc, frame>>
    /\ WsKeeps


\* ---------------------------------------------------------------- port pool
Ids == {"a", "b"}

\* getPort's results that are not port numbers.
NoMorePorts == -1
PortBusy == -2
\* nextPort found no port.
NilPort == -1
\* time.Now().Add(2 * time.Second)
TryingSeconds == 2
\* time.Now().Add(time.Second), in steps of half a second
ReadDeadline == 2

\* A port as make([]port, n) leaves it: its number is never set.
NewPortUnnumbered(n) ==
    [port |-> 0, tunnelTrying |-> FALSE, tunnelTryingUntil |-> 0,
     tunnelConnected |-> FALSE]

\* A port as make([]port, n) leaves it, with its number set.  The time
\* tunnelTryingUntil is kept as the number of seconds it lies after
\* time.Now(), 0 once it has passed (as it has for the zero time.Time).
NewPort(n) ==
    [port |-> n, tunnelTrying |-> FALSE, tunnelTryingUntil |-> 0,
     tunnelConnected |-> FALSE]

\* No run of getPort calls is under way.
RunStart0 == [next |-> 0, mapped |-> {}]

\* A pool operation other than getPort ends the run of successive calls.
EndRun ==
    /\ run' = <<>>
    /\ runStart' = RunStart0

\* --------------------------------------------------------------- handshake
\* The discriminators of the messages a peer sends during the handshake:
\* the reply asked for, and another one.
ReplyIdentity == "ReplyIdentity"
OtherMsg == "Other"
\* A field the JSON text of a message does not have.
Absent == "absent"

\* What a peer sends: a ReplyIdentity carries the identity of the Thing (its
\* Id stands for all its fields); another message may have an Id field too.
PeerMsgs ==
    [Msg : {ReplyIdentity}, Id : Ids] \cup [Msg : {OtherMsg}, Id : Ids \cup {Absent}]

\* var identity MsgIdentity
ZeroIdentity == [Msg |-> "", Id |-> ""]

\* An HTTP handler that is not in getPort.
Gp0 == [pc |-> "idle", id |-> "", i |-> 0, port |-> NilPort, tmp |-> 0,
        ret |-> 0]

\* No call of wsReplyIdentity has been made.
Hs0 ==
    [pc |-> "none", deadline |-> 0, waited |-> 0, identity |-> ZeroIdentity,
     last |-> ZeroIdentity, reads |-> 0, discarded |-> 0]

\* A decoder that sets only the fields that are still empty.
ReadJSONFillsEmpty(identity, msg) ==
    [f \in DOMAIN identity |->
        IF identity[f] = "" /\ msg[f] # Absent THEN msg[f] ELSE identity[f]]

\* p.ws.ReadJSON(&identity): json.Unmarshal sets the fields the text has and
\* leaves the others as they are.
ReadJSON(identity, msg) ==
    [f \in DOMAIN identity |-> IF msg[f] = Absent THEN identity[f] ELSE msg[f]]

\* p.wsReplyIdentity() is called: the first pass through "again:" sets the
\* read deadline and ReadJSON blocks.
WsReplyIdentity ==
    /\ hs.pc = "none"
    /\ hs' = [Hs0 EXCEPT !.pc = "read", !.deadline = ReadDeadline]
    /\ UNCHANGED <<begin, end, num, next, ports, portMap, poolState, initRet,
                   ret, attach, run, runStart>>
    /\ UNCHANGED tickVars
    /\ UNCHANGED gp
    /\ UNCHANGED busVars

\* ReadJSON returns a message that came before the deadline.  With
\* ReplyIdentity the deadline is cleared and the identity returned; with
\* another discriminator the message is skipped and "goto again" sets the
\* deadline anew.
ReadMessage(msg) ==
    /\ hs.pc = "read"
    /\ hs.deadline > 0
    /\ msg.Msg # ReplyIdentity => hs.discarded < MaxDiscard
    /\ LET identity == ReadJSON(hs.identity, msg) IN
       hs' = IF identity.Msg = ReplyIdentity
             THEN [hs EXCEPT !.pc = "ok", !.deadline = 0,
                             !.identity = identity, !.last = msg,
                             !.reads = @ + 1]
             ELSE [hs EXCEPT !.deadline = ReadDeadline,
                             !.identity = identity, !.last = msg,
                             !.reads = @ + 1, !.discarded = @ + 1]
    /\ UNCHANGED <<begin, end, num, next, ports, portMap, poolState, initRet,
                   ret, attach, run, runStart>>
    /\ UNCHANGED tickVars
    /\ UNCHANGED gp
    /\ UNCHANGED busVars

\* Half a second passes with ReadJSON blocked.
ReadWaits ==
    /\ hs.pc = "read"
    /\ hs.deadline > 0
    /\ hs' = [hs EXCEPT !.deadline = @ - 1, !.waited = @ + 1]
    /\ UNCHANGED <<begin, end, num, next, ports, portMap, poolState, initRet,
                   ret, attach, run, runStart>>
    /\ UNCHANGED tickVars
    /\ UNCHANGED gp
    /\ UNCHANGED busVars

\* The deadline has passed: ReadJSON returns a timeout error and
\* wsReplyIdentity returns it.
ReadTimeout ==
    /\ hs.pc = "read"
    /\ hs.deadline = 0
    /\ hs' = [hs EXCEPT !.pc = "failed"]
    /\ UNCHANGED <<begin, end, num, next, ports, portMap, poolState, initRet,
                   ret, attach, run, runStart>>
    /\ UNCHANGED tickVars
    /\ UNCHANGED gp
    /\ UNCHANGED busVars

\* The peer closes the connection: ReadJSON returns the error.
ReadError ==
    /\ hs.pc = "read"
    /\ hs.deadline > 0
    /\ hs' = [hs EXCEPT !.pc = "failed", !.deadline = 0]
    /\ UNCHANGED <<begin, end, num, next, ports, portMap, poolState, initRet,
                   ret, attach, run, runStart>>
    /\ UNCHANGED tickVars
    /\ UNCHANGED gp
    /\ UNCHANGED busVars

\* Before the bridge makes its pool: the zero value of the ports struct.
PoolInit ==
    /\ begin = 0
    /\ end = 0
    /\ num = 0
    /\ next = 0
    /\ ports = <<>>
    /\ portMap = <<>>
    /\ poolState = "none"
    /\ initRet = [done |-> FALSE, err |-> FALSE, num |-> 0, next |-> 0,
                  ports |-> <<>>]
    /\ ret = [id |-> "", port |-> 0]
    /\ attach = <<>>
    /\ run = <<>>
    /\ runStart = RunStart0
    /\ scanTask = "none"
    /\ ticker = "none"
    /\ tickerC = 0
    /\ stopPc = "idle"
    /\ hs = Hs0
    /\ gp = [c \in Tasks |-> Gp0]

\* newPorts(thing, begin, end, attachCb): nothing but the range is set.
NewPorts(b, e) ==
    /\ poolState = "none"
    /\ begin' = b
    /\ end' = e
    /\ poolState' = "new"
    /\ EndRun
    /\ UNCHANGED <<num, next, ports, portMap, initRet, ret, attach>>
    /\ UNCHANGED tickVars
    /\ UNCHANGED hs
    /\ UNCHANGED gp
    /\ UNCHANGED busVars

\* The two checks of init().
InitFailsOnSingle(b, e) == b = 0 \/ b >= e

InitFails(b, e) == b = 0 \/ b > e

\* ports.start(): init(), then the ticker and the scan goroutine.
Start ==
    /\ poolState = "new"
    /\ IF InitFails(begin, end)
       THEN /\ poolState' = "failed"
            /\ initRet' = [done |-> TRUE, err |-> TRUE, num |-> num,
                           next |-> next, ports |-> ports]
            /\ UNCHANGED <<num, next, ports, attach>>
            /\ UNCHANGED <<scanTask, ticker>>
       ELSE /\ num' = end - begin + 1
            /\ ticker' = "on"
            /\ scanTask' = "select"
            /\ next' = 0
            /\ ports' = [i \in 0..(end - begin) |-> NewPort(begin + i)]
            /\ attach' = [i \in 0..(end - begin) |-> <<>>]
            /\ poolState' = "running"
            /\ initRet' = [done |-> TRUE, err |-> FALSE, num |-> num',
                           next |-> next', ports |-> ports']
    /\ EndRun
    /\ UNCHANGED <<begin, end, portMap, ret, tickerC, stopPc>>
    /\ UNCHANGED hs
    /\ UNCHANGED gp
    /\ UNCHANGED busVars

\* nextPort skips a port that is connected, or trying until a time still to
\* come: port.tunnelTryingUntil.After(time.Now()).
SkippedConnectedOnly(port) == port.tunnelConnected

Skipped(port) ==
    \/ port.tunnelConnected
    \/ port.tunnelTrying /\ port.tunnelTryingUntil > 0

\* The loop of nextPort after i iterations with the cursor at cur: the offset
\* of the port found (or NilPort) and the cursor it leaves.
\* A search that looks at the port under the cursor and no further.
NextPortFirstOnly(i, cur) ==
    IF num = 0 \/ Skipped(ports[cur]) THEN [port |-> NilPort, next |-> cur]
    ELSE [port |-> cur, next |-> IF cur + 1 >= num THEN 0 ELSE cur + 1]

\* p.next++, back to 0 at p.num.
Stay(cur) == cur

Advance(cur) == IF cur + 1 >= num THEN 0 ELSE cur + 1

RECURSIVE NextPortLoop(_, _)
NextPortLoop(i, cur) ==
    IF i >= num THEN [port |-> NilPort, next |-> cur]
    ELSE LET after == Advance(cur) IN
         IF Skipped(ports[cur]) THEN NextPortLoop(i + 1, after)
         ELSE [port |-> cur, next |-> after]

\* p.portMap[id] = port
MappedAlone(map, id, offset) == [k \in {id} |-> offset]

Mapped(map, id, offset) ==
    [k \in DOMAIN map \cup {id} |-> IF k = id THEN offset ELSE map[k]]

\* Every port is idle: neither trying nor connected.
AllIdle ==
    \A i \in DOMAIN ports :
        ~ports[i].tunnelTrying /\ ~ports[i].tunnelConnected

\* getPort(id)
GetPort(id) ==
    /\ poolState \in {"new", "running"}
    /\ Len(run) < MaxRun
    /\ IF id \in DOMAIN portMap
       THEN /\ ret' = [id |-> id, port |->
                        IF ports[portMap[id]].tunnelConnected THEN PortBusy
                        ELSE ports[portMap[id]].port]
            /\ UNCHANGED <<next, ports, portMap>>
       ELSE LET found == NextPortLoop(0, next) IN
            /\ next' = found.next
            /\ IF found.port = NilPort
               THEN /\ ret' = [id |-> id, port |-> NoMorePorts]
                    /\ UNCHANGED <<ports, portMap>>
               ELSE /\ ports' = [ports EXCEPT ![found.port] =
                            [@ EXCEPT !.tunnelTrying = TRUE,
                                      !.tunnelTryingUntil = TryingSeconds]]
                    /\ portMap' = Mapped(portMap, id, found.port)
                    /\ ret' = [id |-> id, port |-> ports[found.port].port]
    /\ IF run = <<>> /\ ~(num > 0 /\ AllIdle)
       THEN UNCHANGED <<run, runStart>>
       ELSE /\ run' = Append(run, <<id, ret'.port>>)
            /\ runStart' = IF run = <<>>
                           THEN [next |-> next, mapped |-> DOMAIN portMap]
                           ELSE runStart
    /\ UNCHANGED <<begin, end, num, poolState, initRet, attach>>
    /\ UNCHANGED tickVars
    /\ UNCHANGED hs
    /\ UNCHANGED gp
    /\ UNCHANGED busVars

\* ------------------------------------------------ getPort, step by step
\* getPort as the HTTP handlers run it side by side: nothing but the lock of
\* each port stands between two calls, so the steps of one call are the
\* reads and writes of p.portMap and p.next and the locked sections.

\* The runtime has stopped the process on a concurrent access to p.portMap.
Fatal == \E c \in Tasks : gp[c].pc = "fatal"

GpAt(c, p) == ~Fatal /\ gp[c].pc = p

\* What a step of getPort leaves alone.
GpKeeps ==
    /\ UNCHANGED <<begin, end, num, poolState, initRet, attach, run, runStart>>
    /\ UNCHANGED tickVars
    /\ UNCHANGED hs
    /\ UNCHANGED busVars

\* getBridgePort calls p.getPort(id).
GetPortCall(c, id) ==
    /\ GpAt(c, "idle")
    /\ poolState \in {"new", "running"}
    /\ gp' = [gp EXCEPT ![c] = [Gp0 EXCEPT !.pc = "lookup", !.id = id]]
    /\ UNCHANGED <<next, ports, portMap, ret>>
    /\ GpKeeps

\* port, ok = p.portMap[id], and with ok the locked look at tunnelConnected.
GetPortLookup(c) ==
    /\ GpAt(c, "lookup")
    /\ LET id == gp[c].id IN
       gp' = [gp EXCEPT ![c] =
            IF id \in DOMAIN portMap
            THEN [@ EXCEPT !.pc = "done", !.port = portMap[id],
                           !.ret = IF ports[portMap[id]].tunnelConnected
                                   THEN PortBusy
                                   ELSE ports[portMap[id]].port]
            ELSE [@ EXCEPT !.pc = "loop", !.i = 0]]
    /\ UNCHANGED <<next, ports, portMap, ret>>
    /\ GpKeeps

\* nextPort: i < p.num and port = &p.ports[p.next], which panics when p.next
\* is not an index of p.ports; after the loop, nil and "return -1".
GetPortLoop(c) ==
    /\ GpAt(c, "loop")
    /\ gp' = [gp EXCEPT ![c] =
            IF gp[c].i >= num
            THEN [@ EXCEPT !.pc = "done", !.port = NilPort,
                           !.ret = NoMorePorts]
            ELSE IF next >= num
            THEN [@ EXCEPT !.pc = "panic"]
            ELSE [@ EXCEPT !.pc = "inc_read", !.port = next]]
    /\ UNCHANGED <<next, ports, portMap, ret>>
    /\ GpKeeps

\* p.next++ reads p.next ...  (The cursor is followed up to one past the
\* array and no further.)
GetPortIncRead(c) ==
    /\ GpAt(c, "inc_read")
    /\ next <= num
    /\ gp' = [gp EXCEPT ![c].pc = "inc_write", ![c].tmp = next]
    /\ UNCHANGED <<next, ports, portMap, ret>>
    /\ GpKeeps

\* ... and writes it.
GetPortIncWrite(c) ==
    /\ GpAt(c, "inc_write")
    /\ next' = gp[c].tmp + 1
    /\ gp' = [gp EXCEPT ![c].pc = "wrap"]
    /\ UNCHANGED <<ports, portMap, ret>>
    /\ GpKeeps

\* if p.next >= p.num { p.next = 0 }
GetPortWrap(c) ==
    /\ GpAt(c, "wrap")
    /\ next' = IF next >= num THEN 0 ELSE next
    /\ gp' = [gp EXCEPT ![c].pc = "test"]
    /\ UNCHANGED <<ports, portMap, ret>>
    /\ GpKeeps

\* port.Lock(): a connected port and a port still trying are passed over,
\* another is marked trying for two seconds; port.Unlock().
GetPortTest(c) ==
    /\ GpAt(c, "test")
    /\ IF Skipped(ports[gp[c].port])
       THEN /\ gp' = [gp EXCEPT ![c].pc = "loop", ![c].i = @ + 1]
            /\ UNCHANGED ports
       ELSE /\ gp' = [gp EXCEPT ![c].pc = "store"]
            /\ ports' = [ports EXCEPT ![gp[c].port] =
                            [@ EXCEPT !.tunnelTrying = TRUE,
                                      !.tunnelTryingUntil = TryingSeconds]]
    /\ UNCHANGED <<next, portMap, ret>>
    /\ GpKeeps

\* p.portMap[id] = port starts to write the map ...
GetPortStore(c) ==
    /\ GpAt(c, "store")
    /\ gp' = [gp EXCEPT ![c].pc = "storing"]
    /\ UNCHANGED <<next, ports, portMap, ret>>
    /\ GpKeeps

\* ... and has written it: "return int(port.port)".
GetPortStored(c) ==
    /\ GpAt(c, "storing")
    /\ portMap' = Mapped(portMap, gp[c].id, gp[c].port)
    /\ gp' = [gp EXCEPT ![c].pc = "done", ![c].ret = ports[gp[c].port].port]
    /\ UNCHANGED <<next, ports, ret>>
    /\ GpKeeps

\* A read or a write of p.portMap while another goroutine writes it: the
\* runtime may see it and stop the process ("concurrent map writes",
\* "concurrent map read and map write").
GetPortMapFault(c) ==
    /\ ~Fatal
    /\ gp[c].pc \in {"lookup", "store"}
    /\ \E d \in Tasks \ {c} : gp[d].pc = "storing"
    /\ gp' = [gp EXCEPT ![c].pc = "fatal"]
    /\ UNCHANGED <<next, ports, portMap, ret>>
    /\ GpKeeps

\* getPort has returned, and getBridgePort with it.
GetPortReturn(c) ==
    /\ GpAt(c, "done")
    /\ ret' = [id |-> gp[c].id, port |-> gp[c].ret]
    /\ gp' = [gp EXCEPT ![c] = Gp0]
    /\ UNCHANGED <<next, ports, portMap>>
    /\ GpKeeps

\* webPrivate.getBridgePort: the body of the HTTP reply for what getPort
\* returned, a text or a number written with %d.
GetBridgePort(port) ==
    CASE port = -1 -> [text |-> "no ports available", number |-> 0]
      [] port = -2 -> [text |-> "port busy", number |-> 0]
      [] OTHER -> [text |-> "", number |-> port]

\* port.connect() and port.disconnect(), as scan calls them for a port with
\* and without a listener.
ConnectedKeepsTrying(port) ==
    IF ~port.tunnelConnected
    THEN [port EXCEPT !.tunnelConnected = TRUE]
    ELSE port

Connected(port) ==
    IF ~port.tunnelConnected
    THEN [port EXCEPT !.tunnelConnected = TRUE, !.tunnelTrying = FALSE]
    ELSE port

StaysConnected(port) == port

Disconnected(port) ==
    IF port.tunnelConnected
    THEN [port EXCEPT !.tunnelConnected = FALSE]
    ELSE port

\* An attach goroutine as "go p.attach()" starts it: about to dial, with no
\* transport of its own.  stage is where it is in attach ("dial": in wsOpen;
\* "shake": in wsIdentity / wsReplyIdentity; "cb": in attachCb), conn is the
\* transport it dialled ("none", "open" or "closed"), cur says that p.ws
\* points to that transport, resp is what wsConnect returned to it ("none"
\* or "identity").  Inside the callback, task is the goroutine as the bus
\* knows it, at is what runInBridge does next ("plugin", "start", "read",
\* "done"), pkt is the Msg of the packet it last gave to receive, n counts
\* its receive calls, and own says that all it used of p.ws so far was the
\* transport it dialled itself.
NewAttach ==
    [stage |-> "dial", conn |-> "none", cur |-> FALSE, resp |-> "none",
     task |-> NoTask, at |-> "none", pkt |-> <<>>, n |-> 0, own |-> TRUE]

\* go p.attach()
NotLaunched(tasks) == tasks

Launched(tasks) == Append(tasks, NewAttach)

RECURSIVE LiveUpTo(_, _)
LiveUpTo(att, n) ==
    IF n = 0 THEN 0 ELSE Len(att[n - 1]) + LiveUpTo(att, n - 1)

\* The attach goroutines of the pool that have not returned; at most
\* MaxAttach of them run at a time.
Live(att) == LiveUpTo(att, num)

\* case <-p.ticker.C: the goroutine of start() is in its select and a tick
\* is there to receive, sent by the running ticker or left in the channel
\* of the stopped one.
TickReceived ==
    /\ scanTask = "select"
    /\ ticker = "on" \/ tickerC > 0
    /\ tickerC' = 0

\* ports.scan() on a tick, with the ports ss reports as listening.
Scan(listeners) ==
    /\ poolState = "running"
    /\ TickReceived
    /\ listeners \subseteq begin..end
    /\ Live(attach) + Cardinality({i \in DOMAIN ports :
            ports[i].port \in listeners /\ ~ports[i].tunnelConnected})
        <= MaxAttach
    /\ ports' = [i \in DOMAIN ports |->
                    IF ports[i].port \in listeners
                    THEN Connected(ports[i]) ELSE Disconnected(ports[i])]
    /\ attach' = [i \in DOMAIN ports |->
                    IF ports[i].port \in listeners /\ ~ports[i].tunnelConnected
                    THEN Launched(attach[i]) ELSE attach[i]]
    /\ EndRun
    /\ UNCHANGED <<begin, end, num, next, portMap, poolState, initRet, ret>>
    /\ UNCHANGED <<scanTask, ticker, stopPc>>
    /\ UNCHANGED hs
    /\ UNCHANGED gp
    /\ UNCHANGED busVars

\* On a tick listeningPorts returns an error (ss cannot be run or exits
\* with an error): scan returns it before it looks at any port, and the
\* goroutine of start() logs it and returns.
ScanError ==
    /\ poolState = "running"
    /\ TickReceived
    /\ scanTask' = "exited"
    /\ EndRun
    /\ UNCHANGED <<begin, end, num, next, ports, portMap, poolState, initRet,
                   ret, attach, ticker, stopPc>>
    /\ UNCHANGED hs
    /\ UNCHANGED gp
    /\ UNCHANGED busVars

\* stop(): p.ticker.Stop().  A tick the ticker has sent and the goroutine
\* has not received yet stays in p.ticker.C.
StopTicker ==
    /\ poolState = "running"
    /\ stopPc = "idle"
    /\ ticker' = "stopped"
    /\ tickerC' \in {0, 1}
    /\ stopPc' = "send"
    /\ EndRun
    /\ UNCHANGED <<begin, end, num, next, ports, portMap, poolState, initRet,
                   ret, attach, scanTask>>
    /\ UNCHANGED hs
    /\ UNCHANGED gp
    /\ UNCHANGED busVars

\* What receiving from p.done makes of the goroutine.  With a channel that
\* has room for the value, stop() would return with the goroutine where it
\* was.
AfterDoneBuffered(task) == task

AfterDone(task) == "exited"

\* p.done <- true meets case <-p.done: the channel has no buffer, so the
\* send of stop() completes when the goroutine, in its select, receives;
\* stop() returns and the goroutine returns.
StopSend ==
    /\ stopPc = "send"
    /\ scanTask = "select"
    /\ scanTask' = AfterDone(scanTask)
    /\ stopPc' = "returned"
    /\ EndRun
    /\ UNCHANGED <<begin, end, num, next, ports, portMap, poolState, initRet,
                   ret, attach, ticker, tickerC>>
    /\ UNCHANGED hs
    /\ UNCHANGED gp
    /\ UNCHANGED busVars

\* p.ws = nil without a Close: what a failed Dial assigns.
WsNil(tasks) == [k \in DOMAIN tasks |-> [tasks[k] EXCEPT !.cur = FALSE]]

\* p.wsClose(): the transport p.ws points to, if any, is closed and p.ws is
\* nil.
WsClose(tasks) ==
    [k \in DOMAIN tasks |->
        IF tasks[k].cur
        THEN [tasks[k] EXCEPT !.conn = "closed", !.cur = FALSE]
        ELSE tasks[k]]

WithoutTask(tasks, k) ==
    SubSeq(tasks, 1, k - 1) \o SubSeq(tasks, k + 1, Len(tasks))

\* attach goroutine k of port i is at stage st.
AttachAt(i, k, st) ==
    /\ i \in DOMAIN attach
    /\ k \in DOMAIN attach[i]
    /\ attach[i][k].stage = st

\* The deferred p.wsDisconnect() of goroutine k, found with the transports
\* as in tasks: wsClose(), tunnelConnected = false, and the goroutine ends.
WsDisconnect(i, k, tasks) ==
    /\ attach' = [attach EXCEPT ![i] = WithoutTask(WsClose(tasks), k)]
    /\ ports' = [ports EXCEPT ![i].tunnelConnected = FALSE]

\* wsOpen fails: Dial returns a nil connection and attach returns.
AttachDialFail(i, k) ==
    /\ AttachAt(i, k, "dial")
    /\ WsDisconnect(i, k, WsNil(attach[i]))
    /\ EndRun
    /\ UNCHANGED <<begin, end, num, next, portMap, poolState, initRet, ret>>
    /\ UNCHANGED tickVars
    /\ UNCHANGED hs
    /\ UNCHANGED gp
    /\ UNCHANGED busVars

\* wsOpen succeeds: p.ws is the new connection.
AttachDialed(i, k) ==
    /\ AttachAt(i, k, "dial")
    /\ attach' = [attach EXCEPT ![i] =
                    [WsNil(@) EXCEPT ![k] =
                        [@ EXCEPT !.stage = "shake", !.conn = "open",
                                  !.cur = TRUE]]]
    /\ EndRun
    /\ UNCHANGED <<begin, end, num, next, ports, portMap, poolState, initRet,
                   ret>>
    /\ UNCHANGED tickVars
    /\ UNCHANGED hs
    /\ UNCHANGED gp
    /\ UNCHANGED busVars

\* attach without the return on the error of wsConnect.
AttachHandshakeFailCallsBack(i, k) ==
    /\ AttachAt(i, k, "shake")
    /\ attach' = [attach EXCEPT ![i][k].stage = "cb"]
    /\ EndRun
    /\ UNCHANGED <<begin, end, num, next, ports, portMap, poolState, initRet,
                   ret>>
    /\ UNCHANGED tickVars
    /\ UNCHANGED hs
    /\ UNCHANGED gp
    /\ UNCHANGED busVars

\* wsIdentity fails, or wsReplyIdentity does (its read times out or fails):
\* attach returns.
AttachHandshakeFail(i, k) ==
    /\ AttachAt(i, k, "shake")
    /\ WsDisconnect(i, k, attach[i])
    /\ EndRun
    /\ UNCHANGED <<begin, end, num, next, portMap, poolState, initRet, ret>>
    /\ UNCHANGED tickVars
    /\ UNCHANGED hs
    /\ UNCHANGED gp
    /\ UNCHANGED busVars

\* p.ws != nil
WsSet(i) == \E j \in DOMAIN attach[i] : attach[i][j].cur

\* wsConnect returns the identity, written to and read from p.ws:
\* p.attachCb(p, resp) is called.
AttachHandshake(i, k) ==
    /\ AttachAt(i, k, "shake")
    /\ WsSet(i)
    /\ attach' = [attach EXCEPT ![i][k].stage = "cb",
                                ![i][k].resp = "identity"]
    /\ EndRun
    /\ UNCHANGED <<begin, end, num, next, ports, portMap, poolState, initRet,
                   ret>>
    /\ UNCHANGED tickVars
    /\ UNCHANGED hs
    /\ UNCHANGED gp
    /\ UNCHANGED busVars

\* attachCb returns (its read loop has ended), and attach with it.
AttachCbReturn(i, k) ==
    /\ AttachAt(i, k, "cb")
    /\ WsDisconnect(i, k, attach[i])
    /\ EndRun
    /\ UNCHANGED <<begin, end, num, next, portMap, poolState, initRet, ret>>
    /\ UNCHANGED tickVars
    /\ UNCHANGED hs
    /\ UNCHANGED gp
    /\ UNCHANGED busVars

\* A pool that forgets the id of a port when its deadline runs out.
TickPrunes ==
    /\ ports' = [i \in DOMAIN ports |->
                    [ports[i] EXCEPT !.tunnelTryingUntil =
                        IF @ > 0 THEN @ - 1 ELSE 0]]
    /\ ports' # ports
    /\ portMap' = [id \in {k \in DOMAIN portMap :
                               ports'[portMap[k]].tunnelTryingUntil > 0}
                        |-> portMap[id]]
    /\ EndRun
    /\ UNCHANGED <<begin, end, num, next, poolState, initRet, ret, attach>>
    /\ UNCHANGED tickVars
    /\ UNCHANGED hs
    /\ UNCHANGED gp
    /\ UNCHANGED busVars

\* A second passes: every time still to come is a second nearer.
Tick ==
    /\ ports' = [i \in DOMAIN ports |->
                    [ports[i] EXCEPT !.tunnelTryingUntil =
                        IF @ > 0 THEN @ - 1 ELSE 0]]
    /\ ports' # ports
    /\ EndRun
    /\ UNCHANGED <<begin, end, num, next, portMap, poolState, initRet, ret,
                   attach>>
    /\ UNCHANGED tickVars
    /\ UNCHANGED hs
    /\ UNCHANGED gp
    /\ UNCHANGED busVars

\* ------------------------------------------------------------------ bridge
\* The Msg of the packet runInBridge dispatches before it reads.
CmdStart == <<"C">>

\* What a child sends once it is attached.
Frames == {<<"a">>, <<"b">>}

\* What a Thing subscribes before its bridge starts.
BridgeSubs == { <<PatAny, "hBcast">> }

\* Goroutine t is an attach goroutine inside its callback.
Bound(t) ==
    \E i \in DOMAIN attach : \E k \in DOMAIN attach[i] : attach[i][k].task = t

\* The Msg of the packet goroutine t passes to receive.
PktOf(t) ==
    LET i == CHOOSE i \in DOMAIN attach :
                 \E k \in DOMAIN attach[i] : attach[i][k].task = t
        k == CHOOSE k \in DOMAIN attach[i] : attach[i][k].task = t
    IN attach[i][k].pkt

\* Goroutine k of port i is in runInBridge, between two calls into the bus,
\* with a as the next thing to do.
RunAt(i, k, a) ==
    /\ AttachAt(i, k, "cb")
    /\ attach[i][k].task # NoTask
    /\ attach[i][k].at = a
    /\ At(attach[i][k].task, "idle")

\* The attach callback of the bridge runs the child's runInBridge(p) on the
\* goroutine of attach.
RunInBridge(i, k, t) ==
    /\ AttachAt(i, k, "cb")
    /\ attach[i][k].task = NoTask
    /\ ~Bound(t)
    /\ At(t, "idle")
    /\ attach' = [attach EXCEPT ![i][k].task = t, ![i][k].at = "plugin"]
    /\ EndRun
    /\ UNCHANGED <<begin, end, num, next, ports, portMap, poolState, initRet,
                   ret>>
    /\ UNCHANGED tickVars
    /\ UNCHANGED hs
    /\ UNCHANGED gp
    /\ UNCHANGED busVars

\* What runInBridge leaves alone between two calls into the bus.
RunKeeps ==
    /\ EndRun
    /\ UNCHANGED <<begin, end, num, next, ports, portMap, poolState, initRet,
                   ret>>
    /\ UNCHANGED tickVars
    /\ UNCHANGED hs
    /\ UNCHANGED gp
    /\ UNCHANGED <<sockets, socketQ, sockW, sockR, subs, subW, subR, thingLock>>
    /\ UNCHANGED closed
    /\ UNCHANGED wsVars

\* sock = newWebSocket(name, p.ws); t.bus.plugin(sock) is called.
RunPlugin(i, k) ==
    /\ RunAt(i, k, "plugin")
    /\ LET t == attach[i][k].task IN
        /\ attach' = [attach EXCEPT ![i][k].at = "start",
                                    ![i][k].own = attach[i][k].cur]
        /\ pc' = [pc EXCEPT ![t] = "plugin_send"]
        /\ frame' = [frame EXCEPT ![t] = [Frame0 EXCEPT
                         !.atCap = (Cardinality(sockets) >= SocketsMax)]]
    /\ UNCHANGED panicked
    /\ RunKeeps

\* runInBridge without its receive of "CmdStart".
RunCmdStartSkipped(i, k) ==
    /\ RunAt(i, k, "start")
    /\ attach' = [attach EXCEPT ![i][k].at = "read"]
    /\ UNCHANGED <<pc, frame, panicked>>
    /\ RunKeeps

\* plugin has returned: t.bus.receive(pkt.Marshal(&msg)) is called with
\* Msg "CmdStart".
RunCmdStart(i, k) ==
    /\ RunAt(i, k, "start")
    /\ LET t == attach[i][k].task IN
        /\ attach' = [attach EXCEPT ![i][k].at = "read",
                                    ![i][k].pkt = CmdStart,
                                    ![i][k].n = @ + 1]
        /\ pc' = [pc EXCEPT ![t] = "receive_rlock"]
        /\ frame' = [frame EXCEPT ![t] = Frame0]
    /\ UNCHANGED panicked
    /\ RunKeeps

\* pkt.msg, err = p.readMessage() returns the frame msg of the transport
\* p.ws points to, and t.bus.receive(pkt) is called.  p.ws is read when the
\* frame is there: the call is made just before the frame arrives.
RunRead(i, k, msg) ==
    /\ RunAt(i, k, "read")
    /\ WsSet(i)
    /\ attach[i][k].n <= MaxFrames
    /\ LET t == attach[i][k].task IN
        /\ attach' = [attach EXCEPT ![i][k].pkt = msg,
                                    ![i][k].n = @ + 1,
                                    ![i][k].own = @ /\ attach[i][k].cur]
        /\ pc' = [pc EXCEPT ![t] = "receive_rlock"]
        /\ frame' = [frame EXCEPT ![t] = Frame0]
    /\ UNCHANGED panicked
    /\ RunKeeps

\* The read loop without its break: the packet of the failed read is given
\* to receive.
RunReadFailDispatched(i, k) ==
    /\ RunAt(i, k, "read")
    /\ WsSet(i)
    /\ LET t == attach[i][k].task IN
        /\ attach' = [attach EXCEPT ![i][k].at = "done"]
        /\ pc' = [pc EXCEPT ![t] = "receive_rlock"]
        /\ frame' = [frame EXCEPT ![t] = Frame0]
    /\ UNCHANGED panicked
    /\ RunKeeps

\* p.readMessage() returns an error: the loop breaks and t.bus.unplug(sock)
\* is called.
RunReadFail(i, k) ==
    /\ RunAt(i, k, "read")
    /\ WsSet(i)
    /\ LET t == attach[i][k].task IN
        /\ attach' = [attach EXCEPT ![i][k].at = "done"]
        /\ pc' = [pc EXCEPT ![t] = "unplug_lock"]
        /\ frame' = [frame EXCEPT ![t] = Frame0]
    /\ UNCHANGED panicked
    /\ RunKeeps

\* p.readMessage() with p.ws nil: p.ws.ReadMessage() dereferences it.
RunReadPanic(i, k) ==
    /\ RunAt(i, k, "read")
    /\ ~WsSet(i)
    /\ panicked' = TRUE
    /\ UNCHANGED <<attach, pc, frame>>
    /\ RunKeeps

\* unplug has returned, and runInBridge, the callback and attach with it.
RunReturn(i, k) ==
    /\ RunAt(i, k, "done")
    /\ AttachCbReturn(i, k)

\* ---------------------------------------------------------- specification
Init == BusInit /\ PoolInit

vars == <<busVars, poolVars>>

\* The tasks plug and unplug sockets, broadcast and reply.
SocketNext ==
    \/ \E t \in Tasks : CallPlugin(t)
    \/ \E t \in Tasks : PluginSend(t)
    \/ \E t \in Tasks, s \in Sockets : PluginLock(t, s)
    \/ \E t \in Tasks : PluginUnlock(t)
    \/ \E t \in Tasks : CallUnplug(t)
    \/ \E t \in Tasks, s \in Sockets : UnplugLock(t, s)
    \/ \E t \in Tasks : UnplugRecv(t)
    \/ \E t \in Tasks : UnplugUnlock(t)
    \/ \E t \in Tasks : CallBroadcast(t)
    \/ \E t \in Tasks, src \in PacketSources : BroadcastRLock(t, src)
    \/ \E t \in Tasks : BroadcastRUnlock(t)
    \/ \E t \in Tasks, src \in PacketSources : CallReply(t, src)
    \/ \E t \in Tasks : ReplyLock(t)
    \/ \E t \in Tasks : ReplyUnlock(t)

SocketSpec == Init /\ [][SocketNext]_vars

\* Thing.Start() shuts the bus down with close() while the goroutines of
\* the sockets still plug in, unplug and broadcast.
CloseNext ==
    \/ \E t \in Tasks : CallPlugin(t)
    \/ \E t \in Tasks : PluginSend(t)
    \/ \E t \in Tasks, s \in Sockets : PluginLock(t, s)
    \/ \E t \in Tasks : PluginUnlock(t)
    \/ \E t \in Tasks : CallUnplug(t)
    \/ \E t \in Tasks, s \in Sockets : UnplugLock(t, s)
    \/ \E t \in Tasks : UnplugRecv(t)
    \/ \E t \in Tasks : UnplugUnlock(t)
    \/ \E t \in Tasks : CallBroadcast(t)
    \/ \E t \in Tasks, src \in PacketSources : BroadcastRLock(t, src)
    \/ \E t \in Tasks : BroadcastRUnlock(t)
    \/ \E t \in Tasks : CallClose(t)
    \/ \E t \in Tasks : CloseRLock(t)
    \/ \E t \in Tasks : CloseRUnlock(t)

CloseSpec == Init /\ [][CloseNext]_vars

\* The tasks subscribe, unsubscribe and receive; the handlers that receive
\* runs call subscribe, unsubscribe, broadcast and reply.
SubNext ==
    \/ \E t \in Tasks : CallSubscribe(t)
    \/ \E t \in Tasks, in \in SubInputs : Subscribe(t, in[1], in[2])
    \/ \E t \in Tasks : CallUnsubscribe(t)
    \/ \E t \in Tasks, in \in SubInputs : UnsubscribeLock(t, in[1], in[2])
    \/ \E t \in Tasks : UnsubscribeUnlock(t)
    \/ \E t \in Tasks : CallReceive(t)
    \/ \E t \in Tasks, src \in {NoSocket, 1}, msg \in Msgs :
            ReceiveRLock(t, src, msg)
    \/ \E t \in Tasks : ReceiveRange(t)
    \/ \E t \in Tasks : ReceiveCall(t)
    \/ \E t \in Tasks : ReceiveReturn(t)
    \/ \E t \in Tasks, src \in {NoSocket, 1} : BroadcastRLock(t, src)
    \/ \E t \in Tasks : ReplyLock(t)
    \/ \E t \in Tasks : ReceiveRUnlock(t)

SubSpec == Init /\ [][SubNext]_vars

\* The handlers that call back into the bus without touching its table.
CallbackInputs == { <<PatAny, "hBcast">>, <<PatA, "hReply">> }

\* The goroutines by what they do while a handler calls back into the bus:
\* one reads a socket and feeds receive, the others plug in, unplug and
\* broadcast.
Reader == 1
Others == Tasks \ {Reader}

HandlerNext ==
    \/ CallSubscribe(Reader)
    \/ \E in \in CallbackInputs : Subscribe(Reader, in[1], in[2])
    \/ CallReceive(Reader)
    \/ \E src \in {NoSocket, 1}, msg \in Msgs : ReceiveRLock(Reader, src, msg)
    \/ ReceiveRange(Reader)
    \/ ReceiveCall(Reader)
    \/ ReceiveRUnlock(Reader)
    \/ ReplyLock(Reader)
    \/ \E t \in Others : CallPlugin(t)
    \/ \E t \in Others : PluginSend(t)
    \/ \E t \in Others, s \in Sockets : PluginLock(t, s)
    \/ \E t \in Others : PluginUnlock(t)
    \/ \E t \in Others : CallUnplug(t)
    \/ \E t \in Others, s \in Sockets : UnplugLock(t, s)
    \/ \E t \in Others : UnplugRecv(t)
    \/ \E t \in Others : UnplugUnlock(t)
    \/ \E t \in Others : CallBroadcast(t)
    \/ \E t \in Tasks, src \in {NoSocket, 1} : BroadcastRLock(t, src)
    \/ \E t \in Others : BroadcastRUnlock(t)

HandlerSpec == Init /\ [][HandlerNext]_vars

\* The call task t is in, or the call its handler is in, takes its next
\* step: the goroutine is not blocked.
Progress(t) ==
    \/ PluginSend(t)
    \/ \E s \in Sockets : PluginLock(t, s)
    \/ PluginUnlock(t)
    \/ \E s \in Sockets : UnplugLock(t, s)
    \/ UnplugRecv(t)
    \/ UnplugUnlock(t)
    \/ \E src \in PacketSources : BroadcastRLock(t, src)
    \/ BroadcastRUnlock(t)
    \/ ReplyLock(t)
    \/ ReplyUnlock(t)
    \/ \E src \in PacketSources, msg \in Msgs : ReceiveRLock(t, src, msg)
    \/ ReceiveRange(t)
    \/ ReceiveCall(t)
    \/ ReceiveReturn(t)
    \/ ReceiveRUnlock(t)

\* The bridge makes and starts its pool; getPort requests, scan ticks and
\* attach goroutines that fail to dial follow in any order.
PoolNext ==
    \/ \E b \in 0..MaxPort, e \in 0..MaxPort : NewPorts(b, e)
    \/ Start
    \/ \E id \in Ids : GetPort(id)
    \/ \E listeners \in SUBSET (1..MaxPort) : Scan(listeners)
    \/ \E i \in 0..(MaxPort - 1), k \in 1..MaxAttach : AttachDialFail(i, k)
    \/ Tick

PoolSpec == Init /\ [][PoolNext]_vars

\* One port of a pool and its attach goroutines, from the scan that starts
\* them to their end.
AttachNext ==
    \/ \E b \in 1..MaxPort : NewPorts(b, b)
    \/ Start
    \/ \E id \in Ids : GetPort(id)
    \/ \E listeners \in SUBSET (1..MaxPort) : Scan(listeners)
    \/ \E k \in 1..MaxAttach : AttachDialFail(0, k)
    \/ \E k \in 1..MaxAttach : AttachDialed(0, k)
    \/ \E k \in 1..MaxAttach : AttachHandshakeFail(0, k)
    \/ \E k \in 1..MaxAttach : AttachHandshake(0, k)
    \/ \E k \in 1..MaxAttach : AttachCbReturn(0, k)
    \/ Tick

AttachSpec == Init /\ [][AttachNext]_vars

\* The scanning of a pool from start() to stop(): ticks that scan or fail
\* to, and attach goroutines that fail to dial, in any order.
StopNext ==
    \/ \E b \in 1..MaxPort, e \in 1..MaxPort : NewPorts(b, e)
    \/ Start
    \/ \E listeners \in SUBSET (1..MaxPort) : Scan(listeners)
    \/ ScanError
    \/ StopTicker
    \/ StopSend
    \/ \E i \in 0..(MaxPort - 1), k \in 1..MaxAttach : AttachDialFail(i, k)

StopSpec == Init /\ [][StopNext]_vars

\* One wait for the identity of a peer that sends what it likes.
ShakeNext ==
    \/ WsReplyIdentity
    \/ \E msg \in PeerMsgs : ReadMessage(msg)
    \/ ReadWaits
    \/ ReadTimeout
    \/ ReadError

ShakeSpec == Init /\ [][ShakeNext]_vars

\* One port of a pool whose listener stays up while its attach attempts
\* fail: every scan finds the listener, and the ticker of start() keeps
\* the scans coming.
AttachRetryNext ==
    \/ \E b \in 1..MaxPort : NewPorts(b, b)
    \/ Start
    \/ \E id \in Ids : GetPort(id)
    \/ Scan(begin..end)
    \/ \E k \in 1..MaxAttach : AttachDialFail(0, k)
    \/ \E k \in 1..MaxAttach : AttachDialed(0, k)
    \/ \E k \in 1..MaxAttach : AttachHandshakeFail(0, k)
    \/ Tick

AttachRetrySpec ==
    Init /\ [][AttachRetryNext]_vars /\ WF_vars(Scan(begin..end))

\* A bridge over a pool of one port: the Thing subscribes its handlers, the
\* pool is started and scans, and each attach goroutine that gets through
\* the handshake runs runInBridge on the bus.  A listener shows up only
\* while fewer attach goroutines are live than the bus has goroutines.
BridgeNext ==
    \/ NumSubs = 0 /\ CallSubscribe(Reader)
    \/ \E in \in BridgeSubs : Subscribe(Reader, in[1], in[2])
    \/ NumSubs > 0 /\ NewPorts(1, 1)
    \/ Start
    \/ \E listeners \in SUBSET (1..MaxPort) :
            /\ listeners # {} => Live(attach) < Cardinality(Tasks)
            /\ Scan(listeners)
    \/ \E k \in 1..MaxAttach : AttachDialFail(0, k)
    \/ \E k \in 1..MaxAttach : AttachDialed(0, k)
    \/ \E k \in 1..MaxAttach : AttachHandshakeFail(0, k)
    \/ \E k \in 1..MaxAttach : AttachHandshake(0, k)
    \/ \E k \in 1..MaxAttach, t \in Tasks : RunInBridge(0, k, t)
    \/ \E k \in 1..MaxAttach : RunPlugin(0, k)
    \/ \E t \in Tasks : PluginSend(t)
    \/ \E t \in Tasks : PluginLock(t, t)
    \/ \E t \in Tasks : PluginUnlock(t)
    \/ \E k \in 1..MaxAttach : RunCmdStart(0, k)
    \/ \E k \in 1..MaxAttach, msg \in Frames : RunRead(0, k, msg)
    \/ \E t \in Tasks : Bound(t) /\ ReceiveRLock(t, t, PktOf(t))
    \/ \E t \in Tasks : ReceiveRange(t)
    \/ \E t \in Tasks : ReceiveCall(t)
    \/ \E t \in Tasks : BroadcastRLock(t, t)
    \/ \E t \in Tasks : ReceiveRUnlock(t)
    \/ \E k \in 1..MaxAttach : RunReadFail(0, k)
    \/ \E k \in 1..MaxAttach : RunReadPanic(0, k)
    \/ \E t \in Tasks : UnplugLock(t, t)
    \/ \E t \in Tasks : UnplugRecv(t)
    \/ \E t \in Tasks : UnplugUnlock(t)
    \/ \E k \in 1..MaxAttach : RunReturn(0, k)

BridgeSpec == Init /\ [][BridgeNext]_vars

\* What task t does by itself once it can: the steps of its calls into the
\* bus, the read of a closed connection, and the returns.
ShutForced(t) ==
    \/ PluginSend(t)
    \/ PluginLock(t, wsLoop[t].sock)
    \/ PluginUnlock(t)
    \/ \E msg \in Frames : ReceiveRLock(t, wsLoop[t].sock, msg)
    \/ ReceiveRange(t)
    \/ ReceiveCall(t)
    \/ BroadcastRLock(t, wsLoop[t].sock)
    \/ ReceiveRUnlock(t)
    \/ wsLoop[t].sock \in closed /\ WsReadFail(t)
    \/ UnplugLock(t, wsLoop[t].sock)
    \/ UnplugRecv(t)
    \/ UnplugUnlock(t)
    \/ WsReturn(t)
    \/ CloseRLock(t)
    \/ CloseRUnlock(t)
    \/ StartReturn(t)

\* A Thing with its web server: the Thing subscribes a handler, connections
\* are upgraded and run Thing.ws, and Thing.Start ends with t.bus.close().
ShutNext ==
    \/ NumSubs = 0 /\ CallSubscribe(Reader)
    \/ \E in \in BridgeSubs : Subscribe(Reader, in[1], in[2])
    \/ \E t \in Tasks, s \in Sockets : NumSubs > 0 /\ WsOpen(t, s)
    \/ \E t \in Tasks : PluginSend(t)
    \/ \E t \in Tasks : PluginLock(t, wsLoop[t].sock)
    \/ \E t \in Tasks : PluginUnlock(t)
    \/ \E t \in Tasks : WsRead(t)
    \/ \E t \in Tasks, msg \in Frames : ReceiveRLock(t, wsLoop[t].sock, msg)
    \/ \E t \in Tasks : ReceiveRange(t)
    \/ \E t \in Tasks : ReceiveCall(t)
    \/ \E t \in Tasks : BroadcastRLock(t, wsLoop[t].sock)
    \/ \E t \in Tasks : ReceiveRUnlock(t)
    \/ \E t \in Tasks : WsReadFail(t)
    \/ \E t \in Tasks : UnplugLock(t, wsLoop[t].sock)
    \/ \E t \in Tasks : UnplugRecv(t)
    \/ \E t \in Tasks : UnplugUnlock(t)
    \/ \E t \in Tasks : WsReturn(t)
    \/ \E t \in Tasks : NumSubs > 0 /\ StartClose(t)
    \/ \E t \in Tasks : CloseRLock(t)
    \/ \E t \in Tasks : CloseRUnlock(t)
    \/ \E t \in Tasks : StartReturn(t)

ShutSpec ==
    Init /\ [][ShutNext]_vars /\ \A t \in Tasks : WF_vars(ShutForced(t))

\* The HTTP handlers of a pool call getPort side by side.
RaceNext ==
    \/ \E b \in 1..MaxPort, e \in 1..MaxPort : b <= e /\ NewPorts(b, e)
    \/ Start
    \/ \E c \in Tasks, id \in Ids : GetPortCall(c, id)
    \/ \E c \in Tasks : GetPortLookup(c)
    \/ \E c \in Tasks : GetPortLoop(c)
    \/ \E c \in Tasks : GetPortIncRead(c)
    \/ \E c \in Tasks : GetPortIncWrite(c)
    \/ \E c \in Tasks : GetPortWrap(c)
    \/ \E c \in Tasks : GetPortTest(c)
    \/ \E c \in Tasks : GetPortStore(c)
    \/ \E c \in Tasks : GetPortStored(c)
    \/ \E c \in Tasks : GetPortMapFault(c)
    \/ \E c \in Tasks : GetPortReturn(c)

RaceSpec == Init /\ [][RaceNext]_vars

\* ------------------------------------------------------------------ claims
\* The handlers receive has invoked for one key, in the order of the calls.
RECURSIVE CallsFor(_, _)
CallsFor(calls, key) ==
    IF calls = <<>> THEN <<>>
    ELSE IF Head(calls)[1] = key
    THEN <<Head(calls)[2]>> \o CallsFor(Tail(calls), key)
    ELSE CallsFor(Tail(calls), key)

\* C1: when receive(P) has gone through the table, the handlers it invoked
\* for a registered pattern are all the handlers of that pattern, in the
\* order they were subscribed, if the pattern matches P's Msg as a regular
\* expression, and none if it does not; it invoked no other handler.
C1_ReceiveDispatchesByRegexp ==
    \A t \in Tasks :
        ReceiveFinished(t) =>
            /\ \A key \in DOMAIN subs :
                CallsFor(frame[t].calls, key) =
                    IF Compiles(key) /\ MatchString(key, frame[t].msg)
                    THEN subs[key] ELSE <<>>
            /\ \A i \in 1..Len(frame[t].calls) :
                frame[t].calls[i][1] \in DOMAIN subs

\* A receive of "ba" ran h2 then h1, subscribed in that order to "a" (which
\* is not the Msg, but matches inside it).
C1_Witness ==
    \E t \in Tasks :
        /\ ReceiveFinished(t)
        /\ frame[t].msg = <<"b", "a">>
        /\ frame[t].calls = << <<PatA, "h2">>, <<PatA, "h1">> >>

C3_PluggedWithinCapacity == Cardinality(sockets) <= SocketsMax

\* C4: a plugin call issued while the bus holds SocketsMax plugged sockets
\* gets past its wait for a slot only once an unplug call has released a
\* slot during that wait.
C4_PluginAtCapacityWaitsForUnplug ==
    \A t \in Tasks :
        (pc[t] \in {"plugin_lock", "plugin_unlock"} /\ frame[t].atCap)
            => frame[t].released

\* C5: unplug(s) of a socket that is not plugged leaves the plugged set as
\* it is, releases no capacity slot, and does not wait for one.
C5_UnplugOfUnpluggedIsNoOp ==
    \A t \in Tasks :
        frame[t].s \notin frame[t].oldSockets =>
            /\ pc[t] = "unplug_unlock" =>
                    (sockets = frame[t].oldSockets /\ ~frame[t].took)
            /\ pc[t] = "unplug_recv" => socketQ > 0

\* C6: broadcast(P) calls Send once on every plugged socket other than P's
\* source and on no other socket (so on none when nothing is plugged or only
\* the source is), and leaves the plugged set as it found it.
C6_BroadcastToAllButSource ==
    \A t \in Tasks :
        pc[t] = "broadcast_runlock" =>
            /\ \A s \in Sockets :
                frame[t].out[s] =
                    IF s \in sockets /\ s # frame[t].src THEN 1 ELSE 0
            /\ sockets = {} => frame[t].out = NoOut
            /\ sockets = {frame[t].src} => frame[t].out = NoOut
            /\ sockets = frame[t].oldSockets

\* A broadcast from a plugged source reached another plugged socket.
C6_Witness ==
    \E t \in Tasks :
        /\ pc[t] = "broadcast_runlock"
        /\ frame[t].src \in sockets
        /\ Cardinality(sockets \ {frame[t].src}) >= 1
        /\ \E s \in sockets : frame[t].out[s] = 1

\* C7: reply(P) writes P once to the socket P came from and to no other
\* socket, and P's source is afterwards what it was.
C7_ReplyToSourceOnly ==
    \A t \in Tasks :
        pc[t] = "reply_unlock" =>
            /\ \A s \in Sockets :
                frame[t].out[s] = IF s = frame[t].oldSrc THEN 1 ELSE 0
            /\ frame[t].src = frame[t].oldSrc

\* A reply to a plugged source while another socket is plugged too.
C7_Witness ==
    \E t \in Tasks :
        /\ pc[t] = "reply_unlock"
        /\ frame[t].oldSrc \in sockets
        /\ sockets \ {frame[t].oldSrc} # {}
        /\ frame[t].out[frame[t].oldSrc] = 1

\* C8: a handler that receive is running can call subscribe or unsubscribe
\* and have the call return: the call never waits in subLock.Lock() for the
\* read lock that the handler's own receive holds until the handler returns.
C8_HandlerMaySubscribe ==
    \A t \in Tasks :
        frame[t].inner \in {"subscribe", "unsubscribe"} => t \notin subR

\* C9: a key of the table that does not compile is skipped, none of its
\* handlers run, every handler of every other matching key still runs, and
\* the table is what it was when receive started.
C9_BadPatternIsSkipped ==
    \A t \in Tasks :
        ReceiveFinished(t) =>
            \A bad \in DOMAIN frame[t].oldSubs :
                ~Compiles(bad) =>
                    /\ bad \in frame[t].skipped
                    /\ CallsFor(frame[t].calls, bad) = <<>>
                    /\ \A key \in DOMAIN frame[t].oldSubs :
                        (Compiles(key) /\ MatchString(key, frame[t].msg)) =>
                            CallsFor(frame[t].calls, key) = frame[t].oldSubs[key]
                    /\ subs = frame[t].oldSubs

\* A receive skipped a key that does not compile and ran another key's
\* handler.
C9_Witness ==
    \E t \in Tasks :
        /\ ReceiveFinished(t)
        /\ PatBad \in frame[t].skipped
        /\ frame[t].calls = << <<PatA, "h1">> >>

\* C10: init fails exactly when begin is zero or begin > end; when it does
\* not fail it leaves end-begin+1 ports, the port at offset i numbered
\* begin+i (so begin..end, each once), none trying, none connected, and the
\* cursor at offset 0.
C10_InitRangeCheck ==
    initRet.done =>
        /\ initRet.err <=> (begin = 0 \/ begin > end)
        /\ ~initRet.err =>
            /\ initRet.num = end - begin + 1
            /\ DOMAIN initRet.ports = 0..(initRet.num - 1)
            /\ \A i \in DOMAIN initRet.ports :
                /\ initRet.ports[i].port = begin + i
                /\ ~initRet.ports[i].tunnelTrying
                /\ ~initRet.ports[i].tunnelConnected
            /\ \A n \in begin..end :
                Cardinality({i \in DOMAIN initRet.ports :
                                initRet.ports[i].port = n}) = 1
            /\ initRet.next = 0

\* init has succeeded on a range of several ports.
C10_Witness ==
    /\ initRet.done
    /\ ~initRet.err
    /\ begin < end
    /\ initRet.num = end - begin + 1
    /\ initRet.ports[initRet.num - 1].port = end

\* The first j calls of the run were each for an id that had no port when
\* the run started and that no earlier call of the run was for.
NewDistinctIds(j) ==
    /\ j <= Len(run)
    /\ \A m \in 1..j : run[m][1] \notin runStart.mapped
    /\ \A m1 \in 1..j, m2 \in 1..j : m1 # m2 => run[m1][1] # run[m2][1]

\* C11: on a pool of num idle ports, successive getPort calls for distinct
\* new ids get the ports in round-robin order from the cursor (the j-th call
\* the port j-1 places after it, wrapping), so num calls get num distinct
\* numbers; a later call of the run for one of these ids returns the number
\* the id got before.
C11_RoundRobinThenSticky ==
    /\ \A j \in 1..Len(run) :
        (j <= num /\ NewDistinctIds(j)) =>
            run[j][2] = begin + ((runStart.next + j - 1) % num)
    /\ NewDistinctIds(num) =>
        /\ \A m1 \in 1..num, m2 \in 1..num :
                m1 # m2 => run[m1][2] # run[m2][2]
        /\ \A m \in 1..num, j \in (num + 1)..Len(run) :
                run[j][1] = run[m][1] => run[j][2] = run[m][2]

\* Two ports, two new ids, then the first id again: it got the number it
\* got before, and the other id another one.
C11_Witness ==
    /\ num = 2
    /\ Len(run) = 3
    /\ NewDistinctIds(2)
    /\ run[3][1] = run[1][1]
    /\ run[3][2] = run[1][2]
    /\ run[2][2] # run[1][2]
    /\ run[1][2] > 0

C13_SentinelsExactlyWhen ==
    [][\A id \in Ids :
        GetPort(id) =>
            /\ ret'.port = PortBusy <=>
                    (id \in DOMAIN portMap
                        /\ ports[portMap[id]].tunnelConnected)
            /\ id \notin DOMAIN portMap =>
                /\ ret'.port = NoMorePorts <=>
                        \A i \in DOMAIN ports :
                            \/ ports[i].tunnelConnected
                            \/ /\ ports[i].tunnelTrying
                               /\ ports[i].tunnelTryingUntil > 0
                /\ ret'.port = NoMorePorts =>
                        (portMap' = portMap /\ ports' = ports)]_vars

\* getPort returned NoMorePorts to an id without a port, on a pool with one
\* port connected and the other trying.
C13_Witness ==
    /\ ret.port = NoMorePorts
    /\ ret.id \in Ids \ DOMAIN portMap
    /\ \E i \in DOMAIN ports, j \in DOMAIN ports :
        /\ ports[i].tunnelConnected
        /\ ports[j].tunnelTrying /\ ports[j].tunnelTryingUntil > 0

\* nextPort may take the port at offset i: it is not connected, and not
\* trying with its deadline still to come.
Eligible(i) ==
    /\ ~ports[i].tunnelConnected
    /\ ~(ports[i].tunnelTrying /\ ports[i].tunnelTryingUntil > 0)

\* C14: nextPort, as getPort calls it for an id without a port, returns none
\* exactly when no port is eligible and then changes no port; otherwise it
\* takes the first eligible port in cyclic order from the cursor within one
\* lap (every port before it is skipped for being connected or trying with
\* a live deadline), marks it trying with a deadline of TryingSeconds,
\* changes no other port, and leaves the cursor just past it.
C14_NextPortFirstEligible ==
    [][\A id \in Ids :
        (GetPort(id) /\ id \notin DOMAIN portMap) =>
            IF \A i \in DOMAIN ports : ~Eligible(i)
            THEN ret'.port = NoMorePorts /\ ports' = ports
            ELSE \E d \in 0..(num - 1) :
                    LET c == (next + d) % num IN
                    /\ Eligible(c)
                    /\ \A e \in 0..(d - 1) : ~Eligible((next + e) % num)
                    /\ ret'.port = begin + c
                    /\ ports' = [ports EXCEPT ![c] =
                            [@ EXCEPT !.tunnelTrying = TRUE,
                                      !.tunnelTryingUntil = TryingSeconds]]
                    /\ next' = (c + 1) % num]_vars

\* nextPort passed over the connected port at the cursor and took the next
\* one, which the other id had been given before and whose deadline had
\* elapsed; the cursor wrapped to 0.
C14_Witness ==
    /\ num = 2
    /\ ports[0].tunnelConnected
    /\ ports[1].tunnelTrying /\ ports[1].tunnelTryingUntil = TryingSeconds
    /\ ret.port = begin + 1
    /\ next = 0
    /\ \A id \in Ids : id \in DOMAIN portMap /\ portMap[id] = 1

\* C15: no port is trying and connected at once, so each port is in exactly
\* one of idle (neither flag), trying and connected.
C15_TryingOrConnectedNotBoth ==
    \A i \in DOMAIN ports :
        ~(ports[i].tunnelTrying /\ ports[i].tunnelConnected)

\* A port that getPort had marked trying for an id is connected, and no
\* longer trying.
C15_Witness ==
    \E id \in DOMAIN portMap :
        /\ ports[portMap[id]].tunnelConnected
        /\ ~ports[portMap[id]].tunnelTrying
        /\ attach[portMap[id]] # <<>>

\* The transports of port i that are open.
OpenConns(i) == {k \in DOMAIN attach[i] : attach[i][k].conn = "open"}

\* C16: a port has at most one attach goroutine and at most one open
\* transport at any time.
C16_OneLiveAttachPerPort ==
    \A i \in DOMAIN attach :
        /\ Len(attach[i]) <= 1
        /\ Cardinality(OpenConns(i)) <= 1

\* C17: disconnect(), which a scan calls on every port without a listener,
\* leaves a connected port not connected and with no open transport, and
\* leaves a port that is not connected exactly as it was.
C17_DisconnectClosesTransport ==
    [][\A listeners \in SUBSET (1..MaxPort) :
        Scan(listeners) =>
            \A i \in DOMAIN ports :
                ports[i].port \notin listeners =>
                    IF ports[i].tunnelConnected
                    THEN /\ ~ports'[i].tunnelConnected
                         /\ \A k \in DOMAIN attach'[i] :
                                attach'[i][k].conn # "open"
                    ELSE ports'[i] = ports[i] /\ attach'[i] = attach[i]]_vars

\* C18: a scan that finds the ports of listeners listening leaves every
\* port of listeners that was not connected connected and not trying, with
\* one attach goroutine more than before; leaves every port of listeners
\* that was connected as it was, with no new goroutine; leaves every other
\* port not connected, with no new goroutine, and an idle one idle.
C18_ScanConnectsListeners ==
    [][\A listeners \in SUBSET (1..MaxPort) :
        Scan(listeners) =>
            \A i \in DOMAIN ports :
                IF ports[i].port \in listeners
                THEN IF ~ports[i].tunnelConnected
                     THEN /\ ports'[i].tunnelConnected
                          /\ ~ports'[i].tunnelTrying
                          /\ Len(attach'[i]) = Len(attach[i]) + 1
                          /\ SubSeq(attach'[i], 1, Len(attach[i])) = attach[i]
                     ELSE ports'[i] = ports[i] /\ attach'[i] = attach[i]
                ELSE /\ ~ports'[i].tunnelConnected
                     /\ attach'[i] = attach[i]
                     /\ (~ports[i].tunnelTrying /\ ~ports[i].tunnelConnected)
                            => ports'[i] = ports[i]]_vars

\* A scan found a listener on the first port only: that port, which an id
\* had been given, is connected with its one attach goroutine about to
\* dial, and the second port is idle with none.
C18_Witness ==
    /\ num = 2
    /\ ports[0].tunnelConnected /\ ~ports[0].tunnelTrying
    /\ attach[0] = <<NewAttach>>
    /\ ~ports[1].tunnelConnected /\ ~ports[1].tunnelTrying
    /\ attach[1] = <<>>
    /\ \E id \in DOMAIN portMap : portMap[id] = 0

\* C19: when an attach attempt fails (in wsOpen, wsIdentity or
\* wsReplyIdentity), its attach callback has not been invoked, the transport
\* it opened, if any, is closed by its teardown, and the port is left idle:
\* not connected and not trying.
C19_FailedAttachLeavesPortIdle ==
    [][\A i \in DOMAIN attach :
        \A k \in DOMAIN attach[i] :
            (AttachDialFail(i, k) \/ AttachHandshakeFail(i, k)) =>
                /\ attach[i][k].stage # "cb"
                /\ attach[i][k].conn = "open" => attach[i][k].cur
                /\ ~ports'[i].tunnelConnected
                /\ ~ports'[i].tunnelTrying]_vars

\* C20: the attach goroutines of a port grow in number only in a scan step;
\* and with the listener up and the scans coming, a port left not connected
\* with no attach goroutine (as a failed attempt leaves it) is in time
\* connected again by a scan, with a new attach goroutine.
C20_FailedAttachRetriedByScan ==
    /\ [][\A i \in DOMAIN attach :
            (i \in DOMAIN attach' /\ Len(attach'[i]) > Len(attach[i])) =>
                \E listeners \in SUBSET (1..MaxPort) : Scan(listeners)]_vars
    /\ \A i \in 0..(MaxPort - 1) :
            (/\ poolState = "running"
             /\ i \in DOMAIN ports
             /\ ~ports[i].tunnelConnected
             /\ attach[i] = <<>>)
                ~> (/\ i \in DOMAIN ports
                    /\ ports[i].tunnelConnected
                    /\ attach[i] # <<>>)

\* An attach attempt on the port has failed: a scan had connected the port
\* (that alone clears the tunnelTrying that getPort set for the id), and it
\* is no longer connected and has no attach goroutine.
C20_Witness ==
    /\ poolState = "running"
    /\ \E id \in DOMAIN portMap :
        /\ portMap[id] = 0
        /\ ~ports[0].tunnelTrying
        /\ ~ports[0].tunnelConnected
        /\ attach[0] = <<>>

\* C21: what a port-allocation request returns is the no-ports-available
\* sentinel, the port-busy sentinel, or a positive port number of the pool's
\* range begin..end; the HTTP reply carries the matching text or that number.
C21_ResultIsSentinelOrPortOfRange ==
    ret.id # "" =>
        LET reply == GetBridgePort(ret.port) IN
        \/ ret.port = NoMorePorts /\ reply.text = "no ports available"
        \/ ret.port = PortBusy /\ reply.text = "port busy"
        \/ /\ ret.port > 0
           /\ ret.port \in begin..end
           /\ reply = [text |-> "", number |-> ret.port]

\* A request was answered with the last port of a pool of several ports.
C21_Witness ==
    /\ ret.id # ""
    /\ begin < end
    /\ ret.port = end
    /\ GetBridgePort(ret.port).number = end
\* C22: close() calls Close on every socket that is plugged when it takes
\* the read lock and on no other; no step of close changes the plugged set,
\* the capacity counter or the subscription table, and the plugged set stays
\* as close found it for as long as close holds the lock.
C22_CloseClosesPluggedAndUnplugsNone ==
    /\ [][\A t \in Tasks :
            /\ (pc[t] = "close_rlock" /\ pc'[t] = "close_runlock") =>
                    /\ closed' = closed \cup sockets
                    /\ UNCHANGED <<sockets, socketQ, subs>>
            /\ \/ pc[t] = "idle" /\ pc'[t] = "close_rlock"
               \/ pc[t] = "close_runlock" /\ pc'[t] = "idle"
               => UNCHANGED <<closed, sockets, socketQ, subs>>]_vars
    /\ [](\A t \in Tasks :
            pc[t] = "close_runlock" =>
                /\ sockets = frame[t].oldSockets
                /\ sockets \subseteq closed)

\* close has closed the two sockets plugged into a full bus, which are still
\* plugged and hold their slots; the third socket was not closed.
C22_Witness ==
    \E t \in Tasks :
        /\ pc[t] = "close_runlock"
        /\ Cardinality(sockets) = SocketsMax
        /\ closed = sockets
        /\ socketQ = SocketsMax
\* C23: once started, the scan task goes on scanning on the ticks until
\* stop() is called: it is waiting in its select or has exited, and it has
\* exited only if stop() was called.
C23_OnlyStopEndsScanning ==
    /\ poolState = "running" => scanTask \in {"select", "exited"}
    /\ scanTask = "exited" => stopPc # "idle"

\* C24: after stop() has returned the scan task has exited, and no step
\* after that is a scan or connects or disconnects a port as a scan does:
\* no port gets connected, and a port loses its connection only when one
\* of its attach goroutines ends.
C24_NoScanAfterStop ==
    /\ [](stopPc = "returned" => scanTask = "exited" /\ ticker = "stopped")
    /\ [][stopPc = "returned" =>
            /\ stopPc' = "returned"
            /\ \A listeners \in SUBSET (1..MaxPort) : ~Scan(listeners)
            /\ \A i \in DOMAIN ports :
                /\ ports'[i].tunnelConnected => ports[i].tunnelConnected
                /\ Len(attach'[i]) <= Len(attach[i])
                /\ (ports[i].tunnelConnected /\ ~ports'[i].tunnelConnected)
                        => Len(attach'[i]) < Len(attach[i])]_vars

\* stop() has returned on a pool of which a scan had connected a port; the
\* port is still connected, its attach goroutine still runs, and a tick is
\* left in the channel of the stopped ticker.
C24_Witness ==
    /\ stopPc = "returned"
    /\ tickerC = 1
    /\ \E i \in DOMAIN ports :
        ports[i].tunnelConnected /\ attach[i] # <<>>
\* A handler that receive is running for task t is inside broadcast or
\* reply.
InCallback(t) ==
    /\ ~panicked
    /\ pc[t] = "receive_range"
    /\ frame[t].inner \in {"broadcast", "reply"}

\* C25: a handler running inside receive that calls broadcast or reply is
\* never deadlocked, whatever plugin, unplug and broadcast calls the other
\* goroutines are in: while it is inside the call, the call or a call of
\* another goroutine can take its next step; and receive holds no lock of
\* the socket set while its handlers run.
C25_CallbackDoesNotDeadlock ==
    \A t \in Tasks :
        /\ InCallback(t) => \E u \in Tasks : ENABLED Progress(u)
        /\ pc[t] = "receive_range" => (sockW # t /\ t \notin sockR)
\* C26: while the handshake waits, a message read before the deadline whose
\* discriminator is not ReplyIdentity is discarded and the read is repeated:
\* the handshake has not failed; a ReplyIdentity read before the deadline,
\* also after discarded messages, makes the handshake succeed with the
\* identity that message carries.
C26_OtherMessagesAreDiscarded ==
    [][(hs.pc = "read" /\ hs'.reads = hs.reads + 1) =>
            IF hs'.last.Msg = ReplyIdentity
            THEN /\ hs'.pc = "ok"
                 /\ hs'.identity = hs'.last
                 /\ hs'.discarded = hs.discarded
            ELSE /\ hs'.pc = "read"
                 /\ hs'.deadline > 0
                 /\ hs'.discarded = hs.discarded + 1]_vars

\* The handshake succeeded with identity "b" after two discarded messages,
\* the last of which carried the Id "a", and after half a second of waiting.
C26_Witness ==
    /\ hs.pc = "ok"
    /\ hs.discarded = 2
    /\ hs.waited > 0
    /\ hs.identity = [Msg |-> ReplyIdentity, Id |-> "b"]

\* C27: the wait of the handshake is bounded by the one deadline set when
\* the wait starts: the time waited and the time left until the deadline
\* never add up to more than that first deadline, whatever the peer sends,
\* so that the wait is over, with success or a timeout, by then.
C27_WaitBoundedByFirstDeadline ==
    /\ hs.waited <= ReadDeadline
    /\ hs.pc = "read" => hs.waited + hs.deadline <= ReadDeadline

\* The attach goroutines of the pool's ports.
Goroutines ==
    {ik \in (DOMAIN attach) \X (1..MaxAttach) : ik[2] \in DOMAIN attach[ik[1]]}

\* The sockets runInBridge has made: a goroutine's socket is named after it.
BridgeSockets == {attach[ik[1]][ik[2]].task : ik \in Goroutines} \ {NoTask}

\* C28: a port's socket reaches the bridge and the bus only after the
\* identity handshake on the port has succeeded: a goroutine that is in the
\* attach callback, or runs runInBridge, holds the identity wsConnect
\* returned and a transport it dialled, every plugged socket is the socket
\* of such a goroutine, and a step that plugs a socket is made by one.
C28_PluggedOnlyAfterHandshake ==
    /\ [](\A ik \in Goroutines :
            LET a == attach[ik[1]][ik[2]] IN
            /\ (a.stage = "cb" \/ a.task # NoTask) =>
                   a.resp = "identity" /\ a.conn # "none"
            /\ a.stage # "cb" =>
                   a.task = NoTask /\ a.at = "none" /\ a.resp = "none")
    /\ [](sockets \subseteq BridgeSockets)
    /\ [][\A s \in sockets' \ sockets :
            \E ik \in Goroutines :
                LET a == attach[ik[1]][ik[2]] IN
                a.task = s /\ a.stage = "cb" /\ a.resp = "identity"]_vars

\* A child is plugged into the bus and read from, alone on its port, after
\* another goroutine of the port has returned.
C28_Witness ==
    \E ik \in Goroutines :
        LET a == attach[ik[1]][ik[2]] IN
        /\ a.at = "read"
        /\ a.task \in sockets
        /\ a.resp = "identity"
        /\ Len(attach[ik[1]]) = 1
        /\ ~ports[ik[1]].tunnelConnected

InReceive(t) == pc[t] \in {"receive_rlock", "receive_range"}

InUnplug(t) == pc[t] \in {"unplug_lock", "unplug_recv", "unplug_unlock"}

SlotsTaken ==
    Cardinality(sockets)
        + Cardinality({t \in Tasks : pc[t] \in {"plugin_lock", "unplug_recv"}})

\* C30: when a read on an attached child's transport fails, the goroutine
\* calls unplug and nothing else: it invokes no handler and sends nothing,
\* the step of the failure changes nothing of the bus but that call, and
\* when the goroutine returns its socket is unplugged, the slot it took is
\* free again and the port is marked not connected.
C30_ReadFailureUnplugsQuietly ==
    /\ [](\A ik \in Goroutines :
            LET a == attach[ik[1]][ik[2]]
                t == a.task
            IN a.at = "done" =>
                /\ InUnplug(t) \/ pc[t] = "idle"
                /\ frame[t].calls = <<>>
                /\ frame[t].out = NoOut
                /\ pc[t] = "idle" => t \notin sockets /\ socketQ = SlotsTaken)
    /\ [][\A ik \in Goroutines :
            LET a == attach[ik[1]][ik[2]]
                t == a.task
            IN (/\ a.at = "read"
                /\ ik \in Goroutines'
                /\ attach'[ik[1]][ik[2]].task = t
                /\ attach'[ik[1]][ik[2]].at = "done") =>
                    /\ pc'[t] = "unplug_lock"
                    /\ \A u \in Tasks \ {t} : pc'[u] = pc[u] /\ frame'[u] = frame[u]
                    /\ UNCHANGED <<sockets, socketQ, subs, ports>>]_vars
    /\ [][\A ik \in Goroutines :
            LET a == attach[ik[1]][ik[2]]
                t == a.task
            IN (a.at = "done" /\ t \notin BridgeSockets') =>
                    /\ ~ports'[ik[1]].tunnelConnected
                    /\ t \notin sockets'
                    /\ socketQ' = SlotsTaken']_vars

\* A goroutine whose read failed has unplugged its socket while the socket
\* of another attached child is still plugged.
C30_Witness ==
    \E ik \in Goroutines :
        LET a == attach[ik[1]][ik[2]] IN
        /\ a.at = "done"
        /\ pc[a.task] = "idle"
        /\ a.n > 1
        /\ sockets # {}

\* C31: after bus.close() the read loop of every plugged socket gets an
\* error and unplugs its socket: once Thing.Start has returned from
\* bus.close(), the bus comes to have no socket plugged and no slot taken.
C31_CloseEmptiesTheBus == Shut ~> (sockets = {} /\ socketQ = 0)

\* The getPort calls that have come to their return.
Done == {c \in Tasks : gp[c].pc = "done"}

\* C32: getPort calls made side by side behave as if made one at a time:
\* callers that ask for the same id get the same port number or a sentinel,
\* the port an id is given is the port it is mapped to, and no two ids are
\* mapped to one port while the port is trying.
C32_GetPortCallsAreSerialised ==
    /\ \A c \in Done, d \in Done :
          gp[c].id = gp[d].id =>
              gp[c].ret = gp[d].ret \/ gp[c].ret < 0 \/ gp[d].ret < 0
    /\ \A c \in Done :
          gp[c].ret > 0 =>
              /\ gp[c].id \in DOMAIN portMap
              /\ ports[portMap[gp[c].id]].port = gp[c].ret
    /\ \A a \in DOMAIN portMap, b \in DOMAIN portMap :
          (a # b /\ portMap[a] = portMap[b]) =>
              ~(ports[portMap[a]].tunnelTrying
                    /\ ports[portMap[a]].tunnelTryingUntil > 0)

\* C37: the cursor is an offset of the port array whenever nextPort is
\* about to index the array with it, and between the calls of getPort, so
\* no call indexes outside the array.
C37_CursorIsAnOffset ==
    /\ \A c \in Tasks : gp[c].pc # "panic"
    /\ num > 0 =>
          /\ (\E c \in Tasks : gp[c].pc = "loop") => next \in 0..(num - 1)
          /\ (\A c \in Tasks : gp[c].pc \in {"idle", "done"}) =>
                 next \in 0..(num - 1)

\* The deadline of port i is still to come.
Live2s(p, i) == p[i].tunnelTrying /\ p[i].tunnelTryingUntil > 0

\* C35: the mapping is not pruned when a deadline runs out: a step at which
\* the deadline of a trying port expires leaves the mapping as it is, and
\* when an id is newly given a port, the port is not connected and its
\* deadline is not live, and every id already mapped to it stays mapped to
\* it.
C35_ExpiredMappingIsKept ==
    /\ [][(\E i \in DOMAIN ports :
              /\ i \in DOMAIN ports'
              /\ Live2s(ports, i)
              /\ ~Live2s(ports', i)
              /\ ~ports'[i].tunnelConnected)
          => portMap' = portMap]_vars
    /\ [][\A b \in DOMAIN portMap' \ DOMAIN portMap :
            LET n == portMap'[b] IN
            /\ ~ports[n].tunnelConnected
            /\ ~Live2s(ports, n)
            /\ \A a \in DOMAIN portMap :
                  portMap[a] = n => a \in DOMAIN portMap' /\ portMap'[a] = n]_vars

\* getPort has just given id b the port that id a is still mapped to: the
\* port is trying for b, and no attach goroutine runs on it.
C35_Witness ==
    \E a \in DOMAIN portMap, b \in DOMAIN portMap :
        /\ a # b
        /\ portMap[a] = portMap[b]
        /\ ret = [id |-> b, port |-> ports[portMap[b]].port]
        /\ Live2s(ports, portMap[b])
        /\ attach[portMap[b]] = <<>>

\* C38: whenever no plugin and no unplug call is in progress, the slots of
\* b.socketQ that are taken are as many as the sockets that are plugged.
C38_SlotsMatchSockets ==
    (\A t \in Tasks :
        pc[t] \notin {"plugin_send", "plugin_lock", "plugin_unlock",
                      "unplug_lock", "unplug_recv", "unplug_unlock"})
        => socketQ = Cardinality(sockets)

\* C36: stop() terminates in every state in which it is called on a started
\* pool: whenever stop() is at its send on p.done, the goroutine of start()
\* is there to receive, so the send can be made.
C36_StopTerminates == stopPc = "send" => ENABLED StopSend

\* A handler that calls nothing in the bus is running inside the receive of
\* task t, and stays there for as long as it blocks.
HandlerBlocked(t) == pc[t] = "receive_range" /\ frame[t].inner = "nop"

\* C33: a handler that blocks inside receive stalls only the connection of
\* its task: while it blocks, b.subLock.RLock() is granted to the receive of
\* any other task, also when some task is calling subscribe or unsubscribe.
C33_BlockedHandlerStallsOnlyItsOwn ==
    (\E t \in Tasks : HandlerBlocked(t)) => SubRLockFree

\* C34: a socket that was plugged into the bus is closed exactly once: no
\* socket is closed both by bus.close() and by the deferred ws.Close() of the
\* Thing.ws that made it.
C34_ClosedExactlyOnce == closed \cap wsTorn = {}

\* C39: a port on which an attach goroutine runs with an open transport is
\* marked connected, so that nextPort passes it over and getPort hands it to
\* no id.
C39_AttachedPortIsConnected ==
    \A i \in DOMAIN attach :
        OpenConns(i) # {} => ports[i].tunnelConnected
====
